---- MODULE Spec2Model ----
(***************************************************************************)
(* Customer-support chat assistant: intent classification (remote call     *)
(* with deterministic keyword fallback), the intent -> policy table, the   *)
(* per-session pending-ticket-confirmation state machine and the ticket /  *)
(* conversation store it drives.                                           *)
(*                                                                         *)
(* A Python str is a sequence of one-character strings, so that `in`,      *)
(* lower(), upper(), split() and the ticket-id regular expression are      *)
(* computed on the characters.  Canned texts that are only passed around   *)
(* are TLA+ strings; an f-string is the sequence of its parts.  A          *)
(* confidence is an integer number of hundredths (0.99 is 99).             *)
(***************************************************************************)
EXTENDS Integers, Sequences, FiniteSets, TLC

----------------------------------------------------------------------------
(* Python str operations *)

LowerAlpha == <<"a","b","c","d","e","f","g","h","i","j","k","l","m","n","o","p","q","r","s","t","u","v","w","x","y","z">>
UpperAlpha == <<"A","B","C","D","E","F","G","H","I","J","K","L","M","N","O","P","Q","R","S","T","U","V","W","X","Y","Z">>
DigitChars == <<"0","1","2","3","4","5","6","7","8","9">>

IsIn(c, alpha) == \E i \in 1..Len(alpha) : alpha[i] = c
IndexOf(c, alpha) == CHOOSE i \in 1..Len(alpha) : alpha[i] = c

\* str.lower(), str.upper()
lower(s) ==
  [i \in 1..Len(s) |->
     IF IsIn(s[i], UpperAlpha) THEN LowerAlpha[IndexOf(s[i], UpperAlpha)] ELSE s[i]]
upper(s) ==
  [i \in 1..Len(s) |->
     IF IsIn(s[i], LowerAlpha) THEN UpperAlpha[IndexOf(s[i], LowerAlpha)] ELSE s[i]]

\* word in s
contains(word, s) ==
  \E i \in 1..(Len(s) - Len(word) + 1) : SubSeq(s, i, i + Len(word) - 1) = word

\* any(word in s for word in words)
any_in(words, s) == \E w \in words : contains(w, s)

\* len(s.split()): the number of maximal runs of non-blank characters
split_len(s) ==
  Cardinality({i \in 1..Len(s) : s[i] # " " /\ (i = 1 \/ s[i - 1] = " ")})

\* str(n) for n >= 0
RECURSIVE str(_)
str(n) == IF n < 10 THEN <<DigitChars[n + 1]>> ELSE str(n \div 10) \o <<DigitChars[(n % 10) + 1]>>

\* s.zfill(width)
RECURSIVE zfill(_, _)
zfill(s, width) == IF Len(s) >= width THEN s ELSE zfill(<<"0">> \o s, width)

\* dict.get(key, default); a dict is a function on its keys
get(d, key, default) == IF key \in DOMAIN d THEN d[key] ELSE default
EmptyDict == [k \in {} |-> 0]

----------------------------------------------------------------------------
(* The ticket-id pattern r'TCKT-\d{8}-\d{3}' *)

TicketPrefix == <<"T","C","K","T","-">>

ticket_pattern_at(s, i) ==
  /\ i + 16 <= Len(s)
  /\ SubSeq(s, i, i + 4) = TicketPrefix
  /\ \A k \in 5..12 : IsIn(s[i + k], DigitChars)
  /\ s[i + 13] = "-"
  /\ \A k \in 14..16 : IsIn(s[i + k], DigitChars)

\* re.search(ticket_pattern, s): the set holding the leftmost match, or the
\* empty set for None
re_search(s) ==
  LET at == {i \in 1..Len(s) : ticket_pattern_at(s, i)}
  IN  IF at = {} THEN {}
      ELSE LET i == CHOOSE j \in at : \A k \in at : j <= k
           IN  {SubSeq(s, i, i + 16)}

----------------------------------------------------------------------------
(* SupportAgent: the classifier *)

valid_intents ==
  {"ticket_lookup", "ticket_status_request", "greeting", "shipping", "refund",
   "return", "login", "account", "order_status", "ticket_request", "complex"}

Result(intent, confidence, reasoning) ==
  [intent |-> intent, confidence |-> confidence, reasoning |-> reasoning]

\* if re.search(ticket_pattern, user_message.upper())
has_ticket_id_case_sensitive(user_message) == re_search(user_message) # {}
has_ticket_id(user_message) == re_search(upper(user_message)) # {}

\* if intent not in valid_intents: intent = 'complex'; confidence = 0.5
validate_intent_unchecked(intent, confidence, reasoning) ==
  Result(intent, confidence, reasoning)
validate_intent(intent, confidence, reasoning) ==
  IF intent \notin valid_intents
    THEN Result("complex", 50, reasoning)
    ELSE Result(intent, confidence, reasoning)

_fallback_classification_return_first(user_message) ==
  LET message_lower == lower(user_message) IN
  IF has_ticket_id(user_message)
    THEN Result("ticket_lookup", 99, "Contains ticket ID")
  ELSE IF any_in({<<"c","h","e","c","k"," ","s","t","a","t","u","s">>, <<"t","i","c","k","e","t"," ","s","t","a","t","u","s">>, <<"s","t","a","t","u","s"," ","o","f"," ","m","y"," ","t","i","c","k","e","t">>}, message_lower)
    THEN Result("ticket_status_request", 80, "Ticket status keywords")
  ELSE IF any_in({<<"h","i">>, <<"h","e","l","l","o">>, <<"h","e","y">>}, message_lower) /\ split_len(message_lower) <= 3
    THEN Result("greeting", 90, "Simple greeting")
  ELSE IF any_in({<<"s","h","i","p">>, <<"d","e","l","i","v","e","r","y">>, <<"t","r","a","c","k","i","n","g">>}, message_lower)
    THEN Result("shipping", 70, "Shipping keywords")
  ELSE IF any_in({<<"r","e","t","u","r","n">>, <<"e","x","c","h","a","n","g","e">>, <<"b","r","o","k","e","n">>}, message_lower)
    THEN Result("return", 70, "Return keywords")
  ELSE IF any_in({<<"r","e","f","u","n","d">>, <<"m","o","n","e","y"," ","b","a","c","k">>}, message_lower)
    THEN Result("refund", 70, "Refund keywords")
  ELSE IF any_in({<<"l","o","g","i","n">>, <<"p","a","s","s","w","o","r","d">>, <<"s","i","g","n"," ","i","n">>}, message_lower)
    THEN Result("login", 70, "Login keywords")
  ELSE IF any_in({<<"a","c","c","o","u","n","t">>, <<"p","r","o","f","i","l","e">>, <<"b","i","l","l","i","n","g">>}, message_lower)
    THEN Result("account", 70, "Account keywords")
  ELSE IF any_in({<<"o","r","d","e","r"," ","s","t","a","t","u","s">>, <<"w","h","e","r","e"," ","i","s"," ","m","y"," ","o","r","d","e","r">>}, message_lower)
    THEN Result("order_status", 70, "Order status keywords")
  ELSE IF any_in({<<"c","r","e","a","t","e"," ","t","i","c","k","e","t">>, <<"n","e","w"," ","t","i","c","k","e","t">>, <<"n","e","e","d"," ","h","e","l","p">>}, message_lower)
    THEN Result("ticket_request", 80, "Ticket creation keywords")
  ELSE Result("complex", 50, "No specific category matched")
_fallback_classification(user_message) ==
  LET message_lower == lower(user_message) IN
  IF has_ticket_id(user_message)
    THEN Result("ticket_lookup", 99, "Contains ticket ID")
  ELSE IF any_in({<<"c","h","e","c","k"," ","s","t","a","t","u","s">>, <<"t","i","c","k","e","t"," ","s","t","a","t","u","s">>, <<"s","t","a","t","u","s"," ","o","f"," ","m","y"," ","t","i","c","k","e","t">>}, message_lower)
    THEN Result("ticket_status_request", 80, "Ticket status keywords")
  ELSE IF any_in({<<"h","i">>, <<"h","e","l","l","o">>, <<"h","e","y">>}, message_lower) /\ split_len(message_lower) <= 3
    THEN Result("greeting", 90, "Simple greeting")
  ELSE IF any_in({<<"s","h","i","p">>, <<"d","e","l","i","v","e","r","y">>, <<"t","r","a","c","k","i","n","g">>}, message_lower)
    THEN Result("shipping", 70, "Shipping keywords")
  ELSE IF any_in({<<"r","e","f","u","n","d">>, <<"m","o","n","e","y"," ","b","a","c","k">>}, message_lower)
    THEN Result("refund", 70, "Refund keywords")
  ELSE IF any_in({<<"r","e","t","u","r","n">>, <<"e","x","c","h","a","n","g","e">>, <<"b","r","o","k","e","n">>}, message_lower)
    THEN Result("return", 70, "Return keywords")
  ELSE IF any_in({<<"l","o","g","i","n">>, <<"p","a","s","s","w","o","r","d">>, <<"s","i","g","n"," ","i","n">>}, message_lower)
    THEN Result("login", 70, "Login keywords")
  ELSE IF any_in({<<"a","c","c","o","u","n","t">>, <<"p","r","o","f","i","l","e">>, <<"b","i","l","l","i","n","g">>}, message_lower)
    THEN Result("account", 70, "Account keywords")
  ELSE IF any_in({<<"o","r","d","e","r"," ","s","t","a","t","u","s">>, <<"w","h","e","r","e"," ","i","s"," ","m","y"," ","o","r","d","e","r">>}, message_lower)
    THEN Result("order_status", 70, "Order status keywords")
  ELSE IF any_in({<<"c","r","e","a","t","e"," ","t","i","c","k","e","t">>, <<"n","e","w"," ","t","i","c","k","e","t">>, <<"n","e","e","d"," ","h","e","l","p">>}, message_lower)
    THEN Result("ticket_request", 80, "Ticket creation keywords")
  ELSE Result("complex", 50, "No specific category matched")

\* What the remote completion call does: it raises, or it returns a content
\* that json.loads rejects, that parses to something that is no object, or
\* that parses to an object (a dict).
RemoteIntents == valid_intents \cup {"billing_dispute"}
RemoteConfidences == {95, 150}
Replies ==
  {[kind |-> k, payload |-> EmptyDict] : k \in {"raises", "not_json", "not_object"}}
  \cup {[kind |-> "object", payload |-> EmptyDict]}
  \cup {[kind |-> "object", payload |-> [intent |-> i]] : i \in RemoteIntents}
  \cup {[kind |-> "object", payload |-> [intent |-> i, confidence |-> c, reasoning |-> "remote"]] :
          i \in RemoteIntents, c \in RemoteConfidences}

\* classify_query_with_ai: the returned tuple and the number of remote calls made
classify_query_with_ai_unhandled(self_client, user_message, reply) ==
  IF ~self_client
    THEN [result |-> _fallback_classification(user_message), remote_calls |-> 0]
  ELSE IF has_ticket_id(user_message)
    THEN [result |-> Result("ticket_lookup", 99, "Contains ticket ID pattern"),
          remote_calls |-> 0]
  ELSE IF reply.kind # "object"
    THEN [result |-> Result("complex", 50, "AI classification"), remote_calls |-> 1]
  ELSE LET result == reply.payload
           intent == get(result, "intent", "complex")
           confidence == get(result, "confidence", 50)
           reasoning == get(result, "reasoning", "AI classification")
       IN  [result |-> validate_intent(intent, confidence, reasoning), remote_calls |-> 1]
classify_query_with_ai(self_client, user_message, reply) ==
  IF ~self_client
    THEN [result |-> _fallback_classification(user_message), remote_calls |-> 0]
  ELSE IF has_ticket_id(user_message)
    THEN [result |-> Result("ticket_lookup", 99, "Contains ticket ID pattern"),
          remote_calls |-> 0]
  ELSE IF reply.kind # "object"
    THEN [result |-> _fallback_classification(user_message), remote_calls |-> 1]
  ELSE LET result == reply.payload
           intent == get(result, "intent", "complex")
           confidence == get(result, "confidence", 50)
           reasoning == get(result, "reasoning", "AI classification")
       IN  [result |-> validate_intent(intent, confidence, reasoning), remote_calls |-> 1]

----------------------------------------------------------------------------
(* SupportAgent: the intent -> policy table and its helpers *)

ComplexResponse ==
  "I understand you need assistance, but this seems like a complex issue that would be best handled by our support team."

faq_responses ==
  [intent \in valid_intents \ {"ticket_lookup"} |->
    CASE intent = "shipping" ->
           [response |-> "Our standard shipping takes 3-5 business days. Express shipping is available for 1-2 business days. You'll receive a tracking number once your order ships.",
            can_answer |-> TRUE]
      [] intent = "refund" ->
           [response |-> "Refunds are processed within 5-7 business days after we receive your return. The refund will be credited to your original payment method.",
            can_answer |-> TRUE]
      [] intent = "return" ->
           [response |-> "You can return items within 30 days of delivery. Items must be in original condition. Please visit our returns page or I can create a return ticket for you.",
            can_answer |-> FALSE,
            follow_up |-> "Would you like me to create a return ticket for you?"]
      [] intent = "login" ->
           [response |-> "For login issues, please try resetting your password first. If that doesn't work, I'll create a support ticket for our technical team.",
            can_answer |-> FALSE,
            follow_up |-> "Would you like me to create a support ticket for your login issue?"]
      [] intent = "account" ->
           [response |-> "For account changes, you can update most information in your profile settings. For billing or sensitive changes, I'll need to create a support ticket.",
            can_answer |-> FALSE,
            follow_up |-> "Would you like me to create a ticket for account assistance?"]
      [] intent = "order_status" ->
           [response |-> "To check your order status, I'll need your order number or ticket ID. Please share it with me.",
            can_answer |-> TRUE]
      [] intent = "greeting" ->
           [response |-> "Hello! I'm your customer support assistant. How can I help you today?",
            can_answer |-> TRUE]
      [] intent = "ticket_status_request" ->
           [response |-> "Sure! Please provide your ticket ID (format: TCKT-YYYYMMDD-XXX).",
            can_answer |-> TRUE]
      [] intent = "ticket_request" ->
           [response |-> "I'd be happy to create a support ticket for you. Could you please describe your issue in detail?",
            can_answer |-> FALSE,
            needs_ticket |-> TRUE]
      [] intent = "complex" ->
           [response |-> ComplexResponse,
            can_answer |-> FALSE,
            follow_up |-> "Would you like me to create a support ticket for you?",
            needs_ticket |-> TRUE]]

\* d with d[key] = value (response_config['ai_confidence'] = confidence)
dict_set(d, key, value) ==
  [k \in DOMAIN d \cup {key} |-> IF k = key THEN value ELSE d[k]]

\* classify_query: the returned (query_type, query_info), or raised when
\* re.search(...) is None and .group() is called on it
classify_query(self_client, user_message, reply) ==
  LET ai == classify_query_with_ai(self_client, user_message, reply)
      intent == ai.result.intent
      found == re_search(upper(user_message))
  IN  IF intent = "ticket_lookup"
        THEN IF found = {}
               THEN [raised |-> TRUE, query_type |-> "ticket_lookup",
                     query_info |-> EmptyDict, remote_calls |-> ai.remote_calls]
               ELSE [raised |-> FALSE, query_type |-> "ticket_lookup",
                     query_info |-> [ticket_id |-> CHOOSE t \in found : TRUE],
                     remote_calls |-> ai.remote_calls]
      ELSE IF intent \in DOMAIN faq_responses
        THEN [raised |-> FALSE, query_type |-> intent,
              query_info |-> dict_set(dict_set(faq_responses[intent],
                                               "ai_confidence", ai.result.confidence),
                                      "ai_reasoning", ai.result.reasoning),
              remote_calls |-> ai.remote_calls]
      ELSE [raised |-> FALSE, query_type |-> "complex",
            query_info |-> [response |-> ComplexResponse,
                            can_answer |-> FALSE,
                            follow_up |-> "Would you like me to create a support ticket for you?",
                            needs_ticket |-> TRUE,
                            ai_confidence |-> ai.result.confidence,
                            ai_reasoning |-> ai.result.reasoning],
            remote_calls |-> ai.remote_calls]

category_map ==
  [query_type \in {"return", "refund", "login", "account", "shipping", "order_status",
                   "complex", "ticket_request"} |->
    CASE query_type = "return" -> "Returns"
      [] query_type = "refund" -> "Refunds"
      [] query_type = "login" -> "Technical"
      [] query_type = "account" -> "Account"
      [] query_type = "shipping" -> "Shipping"
      [] query_type = "order_status" -> "Orders"
      [] query_type = "complex" -> "General Support"
      [] query_type = "ticket_request" -> "General Support"]

get_ticket_category(query_type) == get(category_map, query_type, "General Support")

get_ticket_priority(user_message) ==
  LET urgent_keywords == {<<"u","r","g","e","n","t">>, <<"e","m","e","r","g","e","n","c","y">>, <<"a","s","a","p">>, <<"i","m","m","e","d","i","a","t","e","l","y">>, <<"c","r","i","t","i","c","a","l">>, <<"b","r","o","k","e","n">>}
      high_keywords == {<<"i","m","p","o","r","t","a","n","t">>, <<"s","o","o","n">>, <<"q","u","i","c","k","l","y">>, <<"d","e","a","d","l","i","n","e">>}
      message_lower == lower(user_message)
  IN  IF any_in(urgent_keywords, message_lower) THEN "Urgent"
      ELSE IF any_in(high_keywords, message_lower) THEN "High"
      ELSE "Medium"

----------------------------------------------------------------------------
(* Inputs and bounds *)

Sessions == {"s1", "s2"}

\* datetime.now().strftime("%Y%m%d") on the calendar days the model runs through
Dates == <<<<"2","0","2","4","0","1","0","1">>, <<"2","0","2","4","0","1","0","2">>>>

\* What the users type in the chat
Prompts ==
  { <<"y","e","s">>,
    <<"n","o"," ","t","h","a","n","k"," ","y","o","u">>,
    <<"c","a","n","c","e","l">>,
    <<"h","m","m">>,
    <<"I"," ","w","a","n","t"," ","t","o"," ","r","e","t","u","r","n"," ","t","h","i","s"," ","b","r","o","k","e","n"," ","i","t","e","m">>,
    <<"t","c","k","t","-","2","0","2","4","0","1","0","1","-","0","0","1">> }

\* The messages the classifier is tried on
ClassifyMessages ==
  Prompts \cup
  { <<"n","o">>, <<"h","i">>, <<"y">>, <<"H","e","l","l","o">>, <<"n","e","e","d"," ","h","e","l","p">>,
    <<"T","C","K","T","-","2","0","2","4","0","1","0","1","-","0","0","1"," ","r","e","f","u","n","d"," ","m","y"," ","s","h","i","p","p","i","n","g">>,
    <<"s","t","a","t","u","s"," ","o","f"," ","T","C","K","T","-","2","0","2","4","0","1","0","2","-","0","0","2"," ","p","l","e","a","s","e">>,
    <<"T","C","K","T","-","2","0","2","4","-","0","0","1">>,
    <<"c","h","e","c","k"," ","s","t","a","t","u","s">>,
    <<"c","h","e","c","k"," ","s","t","a","t","u","s"," ","o","f"," ","m","y"," ","d","e","l","i","v","e","r","y">>,
    <<"s","h","i","p","p","i","n","g"," ","c","o","s","t">>,
    <<"t","r","a","c","k","i","n","g"," ","d","e","l","i","v","e","r","y">>,
    <<"h","e","y"," ","t","h","e","r","e"," ","h","o","w"," ","a","r","e"," ","y","o","u"," ","t","o","d","a","y">>,
    <<"r","e","f","u","n","d"," ","o","r"," ","r","e","t","u","r","n">>,
    <<"I"," ","c","a","n","n","o","t"," ","l","o","g","i","n"," ","s","o","o","n">>,
    <<"b","i","l","l","i","n","g"," ","q","u","e","s","t","i","o","n">>,
    <<"w","h","e","r","e"," ","i","s"," ","m","y"," ","o","r","d","e","r">>,
    <<"m","y"," ","o","r","d","e","r"," ","i","s"," ","l","a","t","e">> }

\* What the two sessions of the shared-store runs type
SharedPrompts ==
  { <<"y","e","s">>,
    <<"c","a","n","c","e","l">>,
    <<"I"," ","w","a","n","t"," ","t","o"," ","r","e","t","u","r","n"," ","t","h","i","s"," ","b","r","o","k","e","n"," ","i","t","e","m">> }

\* How many tickets were already issued on the day a run starts
IssuedCounts == {0, 9, 99, 999}

\* What two users with different issues type
IssuePrompts == { <<"y","e","s">>, <<"I"," ","w","a","n","t"," ","t","o"," ","r","e","t","u","r","n"," ","t","h","i","s"," ","b","r","o","k","e","n"," ","i","t","e","m">>, <<"I"," ","c","a","n","n","o","t"," ","l","o","g","i","n"," ","s","o","o","n">> }

\* The remote replies the chat driver is run against: its routing reads the
\* intent only
DriverIntents ==
  {"ticket_lookup", "ticket_status_request", "greeting", "return", "ticket_request",
   "billing_dispute"}
DriverReplies ==
  {r \in Replies : \/ r.kind = "raises"
                   \/ /\ r.kind = "object"
                      /\ DOMAIN r.payload = {"intent"}
                      /\ r.payload["intent"] \in DriverIntents}

\* any(word in prompt.lower() for word in ['yes', 'please', 'create', 'y'])
is_affirmative(prompt) == any_in({<<"y","e","s">>, <<"p","l","e","a","s","e">>, <<"c","r","e","a","t","e">>, <<"y">>}, lower(prompt))
\* any(word in prompt.lower() for word in ['no', 'cancel', 'nevermind'])
is_negative(prompt) == any_in({<<"n","o">>, <<"c","a","n","c","e","l">>, <<"n","e","v","e","r","m","i","n","d">>}, lower(prompt))

\* The classifier and the word tests on every message of the model, computed once
classify_query_of ==
  [c \in BOOLEAN |-> [m \in ClassifyMessages |-> [r \in Replies |-> classify_query(c, m, r)]]]
is_affirmative_of == [m \in ClassifyMessages |-> is_affirmative(m)]
is_negative_of == [m \in ClassifyMessages |-> is_negative(m)]

\* What the user of the help-desk runs types, and the remote replies there
DeskPrompts ==
  { <<"t","c","k","t","-","2","0","2","4","0","1","0","1","-","0","0","1">>,
    <<"s","t","a","t","u","s"," ","o","f"," ","T","C","K","T","-","2","0","2","4","0","1","0","2","-","0","0","2"," ","p","l","e","a","s","e">>,
    <<"w","h","e","r","e"," ","i","s"," ","m","y"," ","o","r","d","e","r">> }
DeskIntents == {"shipping", "refund", "order_status", "greeting", "ticket_status_request", "return"}
DeskReplies ==
  {r \in Replies : \/ r.kind = "raises"
                   \/ /\ r.kind = "object"
                      /\ DOMAIN r.payload = {"intent"}
                      /\ r.payload["intent"] \in DeskIntents}

\* What the operator passes to update_ticket_status
UpdateIds == {<<"t","c","k","t","-","2","0","2","4","0","1","0","1","-","0","0","1">>, <<"T","C","K","T","-","2","0","2","4","0","1","0","1","-","0","0","2">>, <<"T","C","K","T","-","2","0","2","4","0","1","0","2","-","0","0","2">>}
Statuses == {<<"I","n"," ","P","r","o","g","r","e","s","s">>, <<"R","e","s","o","l","v","e","d">>, <<"C","L","O","S","E","D">>, <<"O","p","e","n">>}
Agents == {{}, {""}, {"agent-7"}}

\* The number of prompts a run handles, and of update_ticket_status calls
MaxTurns == 2
MaxSharedTurns == 4
MaxIssueTurns == 4
MaxDeskTurns == 2
MaxBusyTurns == 2
MaxUpdates == 2

VARIABLES
  client,                  \* support_agent.client is set (a Groq client was built)
  today,                   \* the current calendar day, an index of Dates
  users,                   \* table users: the session ids that have a row
  tickets,                 \* table support_tickets, in insertion order
  conversations,           \* table conversations, in insertion order
  clock,                   \* datetime.utcnow(), as a count of ticks
  user_initialized,        \* st.session_state.user_initialized, per session
  messages,                \* st.session_state.messages, per session
  pending_ticket_creation, \* st.session_state.pending_ticket_creation, per session
  pending_ticket_info,     \* st.session_state.pending_ticket_info, per session
  pc,                      \* per session: "idle", or "creating" inside create_support_ticket
  frame,                   \* per session: the locals of the turn that is running
  last,                    \* what the last step was given and what it showed
  offered,                 \* history: per session, the offer turn whose answer is awaited
  budget,                  \* the number of prompts the run still handles
  query,                   \* the message handed to the classifier on its own
  classified               \* what the classifier returned for it

vars ==
  <<client, today, users, tickets, conversations, clock, user_initialized, messages,
    pending_ticket_creation, pending_ticket_info, pc, frame, last, offered, budget, query, classified>>

store == <<users, tickets, conversations>>
session_state == <<user_initialized, messages, pending_ticket_creation, pending_ticket_info>>
classifier_vars == <<query, classified>>

NoFrame == [prompt |-> <<>>, ticket_id |-> <<>>]

\* The record of a step: the session that acted, the prompt, whether the turn
\* began with pending_ticket_creation set, the branch taken, the response shown
\* in the chat, the ids of the tickets created, whether st.error / st.warning
\* was shown, and the classifier's outcome
Step(kind, s, prompt, began_pending, branch, response, created, error, warning, query_type, remote_calls) ==
  [kind |-> kind, session |-> s, prompt |-> prompt, began_pending |-> began_pending,
   branch |-> branch, response |-> response, created |-> created, error |-> error,
   warning |-> warning, query_type |-> query_type, remote_calls |-> remote_calls,
   returned |-> {}, args |-> <<>>]

Control(kind, s, error) == Step(kind, s, <<>>, FALSE, "", <<>>, {}, error, FALSE, "", 0)

InitSessions ==
  /\ user_initialized = [s \in Sessions |-> FALSE]
  /\ messages = [s \in Sessions |-> <<>>]
  /\ pending_ticket_creation = [s \in Sessions |-> FALSE]
  /\ pending_ticket_info = [s \in Sessions |-> EmptyDict]
  /\ pc = [s \in Sessions |-> "idle"]
  /\ frame = [s \in Sessions |-> NoFrame]
  /\ offered = [s \in Sessions |-> {}]

InitStore ==
  /\ users = {}
  /\ tickets = <<>>
  /\ conversations = <<>>
  /\ clock = 0

Init ==
  /\ client = TRUE
  /\ today = 1
  /\ InitStore
  /\ InitSessions
  /\ last = Control("init", "", FALSE)
  /\ budget = MaxTurns
  /\ query = <<>>
  /\ classified = {}

----------------------------------------------------------------------------
(* DatabaseManager *)

\* "".join(s): the characters as one string
RECURSIVE join(_)
join(s) == IF s = <<>> THEN "" ELSE Head(s) \o join(Tail(s))

\* ticket_id LIKE 'TCKT-{today}-%'
like_any_day(ticket_id, day) ==
  Len(ticket_id) >= Len(TicketPrefix) /\ SubSeq(ticket_id, 1, Len(TicketPrefix)) = TicketPrefix
like_today(ticket_id, day) ==
  LET prefix == TicketPrefix \o day \o <<"-">>
  IN  Len(ticket_id) >= Len(prefix) /\ SubSeq(ticket_id, 1, Len(prefix)) = prefix

\* generate_ticket_id on the rows it reads
generate_ticket_id(rows, day) ==
  LET today_tickets == Cardinality({i \in 1..Len(rows) : like_today(rows[i].ticket_id, day)})
      ticket_number == zfill(str(today_tickets + 1), 3)
  IN  TicketPrefix \o day \o <<"-">> \o ticket_number

SupportTicket(ticket_id, session_id, issue_description, category, priority) ==
  [ticket_id |-> ticket_id, user_session_id |-> session_id,
   issue_description |-> issue_description, category |-> category,
   priority |-> priority, status |-> <<"O","p","e","n">>,
   created_at |-> clock, updated_at |-> clock, resolved_at |-> {}, assigned_agent |-> {}]

\* ticket_id = Column(String(50), unique=True): the commit of a row whose
\* ticket_id is already stored raises
unique_not_enforced(rows, ticket_id) == FALSE
violates_unique(rows, ticket_id) == \E i \in 1..Len(rows) : rows[i].ticket_id = ticket_id

\* get_ticket_by_id: the rows found (.first() of them is returned)
get_ticket_by_id_lower(rows, ticket_id) ==
  {i \in 1..Len(rows) : rows[i].ticket_id = lower(ticket_id)}
get_ticket_by_id(rows, ticket_id) ==
  {i \in 1..Len(rows) : rows[i].ticket_id = upper(ticket_id)}

\* update_ticket_status on the rows, at time now: the rows after the call and
\* what it returns (the ticket, or None); assigned_agent is None ({}) or a string
update_ticket_status_exact_case(rows, ticket_id, status, assigned_agent, now) ==
  LET found == {i \in 1..Len(rows) : rows[i].ticket_id = upper(ticket_id)}
  IN  IF found = {}
        THEN [rows |-> rows, returned |-> {}]
        ELSE LET i == CHOOSE i \in found : \A j \in found : i <= j
                 ticket == [rows[i] EXCEPT
                              !.status = status,
                              !.updated_at = now,
                              !.assigned_agent = IF assigned_agent \notin {{}, {""}}
                                                   THEN assigned_agent ELSE @,
                              !.resolved_at = IF status \in {<<"r","e","s","o","l","v","e","d">>, <<"c","l","o","s","e","d">>}
                                                THEN {now} ELSE @]
             IN  [rows |-> [rows EXCEPT ![i] = ticket], returned |-> {ticket}]
update_ticket_status(rows, ticket_id, status, assigned_agent, now) ==
  LET found == {i \in 1..Len(rows) : rows[i].ticket_id = upper(ticket_id)}
  IN  IF found = {}
        THEN [rows |-> rows, returned |-> {}]
        ELSE LET i == CHOOSE i \in found : \A j \in found : i <= j
                 ticket == [rows[i] EXCEPT
                              !.status = status,
                              !.updated_at = now,
                              !.assigned_agent = IF assigned_agent \notin {{}, {""}}
                                                   THEN assigned_agent ELSE @,
                              !.resolved_at = IF lower(status) \in {<<"r","e","s","o","l","v","e","d">>, <<"c","l","o","s","e","d">>}
                                                THEN {now} ELSE @]
             IN  [rows |-> [rows EXCEPT ![i] = ticket], returned |-> {ticket}]

Conversation(session_id, message, response, model_used) ==
  [user_session_id |-> session_id, message |-> message, response |-> response,
   model_used |-> model_used]

----------------------------------------------------------------------------
(* The chat driver: one turn per prompt *)


ConfirmationResponse(ticket_id) ==
  <<"Perfect! I've created a support ticket for you.\n\n**Ticket ID: ", join(ticket_id),
    "**\n\nOur support team will review your issue and contact you soon. You can check the status anytime using the ticket ID.">>
DeclineResponse == <<"No problem! Is there anything else I can help you with today?">>
RepromptResponse ==
  <<"I didn't understand your response. Would you like me to create a support ticket? Please answer 'yes' or 'no'.">>
NotFoundResponse(ticket_id) ==
  <<"I couldn't find a ticket with ID ", join(ticket_id),
    ". Please double-check the ticket ID or contact our support team if you continue to have issues.">>
FoundResponse(ticket) ==
  LET status_msg ==
        IF lower(ticket.status) = <<"o","p","e","n">> THEN "currently being reviewed by our support team"
        ELSE IF lower(ticket.status) = <<"i","n"," ","p","r","o","g","r","e","s","s">> THEN "being actively worked on by our support team"
        ELSE IF lower(ticket.status) = <<"r","e","s","o","l","v","e","d">> THEN "has been resolved"
        ELSE "has status: " \o join(ticket.status)
  IN  <<"Thank you for providing your ticket ID. Your ticket **", join(ticket.ticket_id), "** ",
        status_msg, ". You'll receive an update shortly.">>
FreeFormAnswer == <<"(the answer streamed by the chat model)">>

user_message(prompt) == [role |-> "user", content |-> prompt]
assistant_message(response) == [role |-> "assistant", content |-> response]

\* st.chat_input hands over a prompt: the page is past the setup screen and no
\* turn of the session is running
accepts_prompt(s) ==
  /\ user_initialized[s]
  /\ pc[s] = "idle"
  /\ budget > 0

\* The tail of a turn that produced a response: show it, append it to the
\* history, save the conversation (a failed save is only warned about)
Respond_without_saving(s, prompt, response, model_used, save_ok) ==
  /\ messages' = [messages EXCEPT ![s] =
                    messages[s] \o <<user_message(prompt), assistant_message(response)>>]
  /\ conversations' = conversations
Respond_only_when_saved(s, prompt, response, model_used, save_ok) ==
  /\ messages' = [messages EXCEPT ![s] =
                    IF save_ok
                      THEN messages[s] \o <<user_message(prompt), assistant_message(response)>>
                      ELSE messages[s] \o <<user_message(prompt)>>]
  /\ conversations' = IF save_ok
                        THEN Append(conversations, Conversation(s, prompt, response, model_used))
                        ELSE conversations
Respond(s, prompt, response, model_used, save_ok) ==
  /\ messages' = [messages EXCEPT ![s] =
                    messages[s] \o <<user_message(prompt), assistant_message(response)>>]
  /\ conversations' = IF save_ok
                        THEN Append(conversations, Conversation(s, prompt, response, model_used))
                        ELSE conversations

\* The except handler of a turn: st.error, and the user message is removed
\* from the history again
Fail_keeps_user_message(s, prompt, began_pending, query_type, remote_calls) ==
  /\ last' = Step("turn", s, prompt, began_pending, "failed", <<>>, {}, TRUE, FALSE,
                  query_type, remote_calls)
  /\ messages' = [messages EXCEPT ![s] = Append(messages[s], user_message(prompt))]
  /\ UNCHANGED conversations
Fail(s, prompt, began_pending, query_type, remote_calls) ==
  /\ last' = Step("turn", s, prompt, began_pending, "failed", <<>>, {}, TRUE, FALSE,
                  query_type, remote_calls)
  /\ UNCHANGED <<messages, conversations>>

\* pending_ticket_creation = False; pending_ticket_info = {}
reset_pending_flag_only(s) ==
  /\ pending_ticket_creation' = [pending_ticket_creation EXCEPT ![s] = FALSE]
  /\ pending_ticket_info' = pending_ticket_info
reset_pending_all(s) ==
  /\ pending_ticket_creation' = [t \in Sessions |-> FALSE]
  /\ pending_ticket_info' = [t \in Sessions |-> EmptyDict]
reset_pending(s) ==
  /\ pending_ticket_creation' = [pending_ticket_creation EXCEPT ![s] = FALSE]
  /\ pending_ticket_info' = [pending_ticket_info EXCEPT ![s] = EmptyDict]

\* The pending_ticket_info an offer stores
offer_info_default_priority(prompt, query_type) ==
  [description |-> prompt,
   category |-> get_ticket_category(query_type),
   priority |-> "Medium"]
offer_info(prompt, query_type) ==
  [description |-> prompt,
   category |-> get_ticket_category(query_type),
   priority |-> get_ticket_priority(prompt)]

\* The ticket a confirmation asks the store for
confirmed_ticket_of_prompt(ticket_id, s, ticket_info, prompt) ==
  SupportTicket(ticket_id, s, prompt,
                get(ticket_info, "category", "General Support"),
                get(ticket_info, "priority", "Medium"))
confirmed_ticket(ticket_id, s, ticket_info, prompt) ==
  SupportTicket(ticket_id, s,
                get(ticket_info, "description", prompt),
                get(ticket_info, "category", "General Support"),
                get(ticket_info, "priority", "Medium"))

\* The routing of a classified prompt: the branch, the response, the pending
\* state to set (if any) and the model the conversation row names
route_delegates_no_follow_up(query_type, query_info, prompt, rows) ==
  IF query_type = "ticket_lookup" THEN
    LET ticket_id == query_info["ticket_id"]
        found == get_ticket_by_id(rows, ticket_id)
    IN  [branch |-> "lookup",
         response |-> IF found # {}
                        THEN FoundResponse(rows[CHOOSE i \in found : \A j \in found : i <= j])
                        ELSE NotFoundResponse(ticket_id),
         offer |-> FALSE, info |-> EmptyDict, model_used |-> "support_agent"]
  ELSE IF query_type = "ticket_status_request" THEN
    [branch |-> "status_request", response |-> <<query_info["response"]>>,
     offer |-> FALSE, info |-> EmptyDict, model_used |-> "support_agent"]
  ELSE IF get(query_info, "can_answer", FALSE) THEN
    [branch |-> "answer", response |-> <<query_info["response"]>>,
     offer |-> FALSE, info |-> EmptyDict, model_used |-> "support_agent"]
  ELSE IF get(query_info, "needs_ticket", FALSE) \/ ~get(query_info, "can_answer", TRUE) THEN
    IF "follow_up" \in DOMAIN query_info
      THEN [branch |-> "offer",
            response |-> <<query_info["response"], "\n\n", query_info["follow_up"]>>,
            offer |-> TRUE,
            info |-> offer_info(prompt, query_type),
            model_used |-> "support_agent"]
      ELSE [branch |-> "ai_fallback", response |-> FreeFormAnswer,
            offer |-> FALSE, info |-> EmptyDict, model_used |-> "selected_model"]
  ELSE
    [branch |-> "ai_fallback", response |-> FreeFormAnswer,
     offer |-> FALSE, info |-> EmptyDict, model_used |-> "selected_model"]
route_answer_offers(query_type, query_info, prompt, rows) ==
  IF query_type = "ticket_lookup" THEN
    LET ticket_id == query_info["ticket_id"]
        found == get_ticket_by_id(rows, ticket_id)
    IN  [branch |-> "lookup",
         response |-> IF found # {}
                        THEN FoundResponse(rows[CHOOSE i \in found : \A j \in found : i <= j])
                        ELSE NotFoundResponse(ticket_id),
         offer |-> FALSE, info |-> EmptyDict, model_used |-> "support_agent"]
  ELSE IF query_type = "ticket_status_request" THEN
    [branch |-> "status_request", response |-> <<query_info["response"]>>,
     offer |-> FALSE, info |-> EmptyDict, model_used |-> "support_agent"]
  ELSE IF get(query_info, "can_answer", FALSE) THEN
    [branch |-> "answer", response |-> <<query_info["response"]>>,
     offer |-> TRUE, info |-> offer_info(prompt, query_type), model_used |-> "support_agent"]
  ELSE IF get(query_info, "needs_ticket", FALSE) \/ ~get(query_info, "can_answer", TRUE) THEN
    IF "follow_up" \in DOMAIN query_info
      THEN [branch |-> "offer",
            response |-> <<query_info["response"], "\n\n", query_info["follow_up"]>>,
            offer |-> TRUE,
            info |-> offer_info(prompt, query_type),
            model_used |-> "support_agent"]
      ELSE [branch |-> "no_follow_up", response |-> <<query_info["response"]>>,
            offer |-> FALSE, info |-> EmptyDict, model_used |-> "support_agent"]
  ELSE
    [branch |-> "ai_fallback", response |-> FreeFormAnswer,
     offer |-> FALSE, info |-> EmptyDict, model_used |-> "selected_model"]
route(query_type, query_info, prompt, rows) ==
  IF query_type = "ticket_lookup" THEN
    LET ticket_id == query_info["ticket_id"]
        found == get_ticket_by_id(rows, ticket_id)
    IN  [branch |-> "lookup",
         response |-> IF found # {}
                        THEN FoundResponse(rows[CHOOSE i \in found : \A j \in found : i <= j])
                        ELSE NotFoundResponse(ticket_id),
         offer |-> FALSE, info |-> EmptyDict, model_used |-> "support_agent"]
  ELSE IF query_type = "ticket_status_request" THEN
    [branch |-> "status_request", response |-> <<query_info["response"]>>,
     offer |-> FALSE, info |-> EmptyDict, model_used |-> "support_agent"]
  ELSE IF get(query_info, "can_answer", FALSE) THEN
    [branch |-> "answer", response |-> <<query_info["response"]>>,
     offer |-> FALSE, info |-> EmptyDict, model_used |-> "support_agent"]
  ELSE IF get(query_info, "needs_ticket", FALSE) \/ ~get(query_info, "can_answer", TRUE) THEN
    IF "follow_up" \in DOMAIN query_info
      THEN [branch |-> "offer",
            response |-> <<query_info["response"], "\n\n", query_info["follow_up"]>>,
            offer |-> TRUE,
            info |-> offer_info(prompt, query_type),
            model_used |-> "support_agent"]
      ELSE [branch |-> "no_follow_up", response |-> <<query_info["response"]>>,
            offer |-> FALSE, info |-> EmptyDict, model_used |-> "support_agent"]
  ELSE
    [branch |-> "ai_fallback", response |-> FreeFormAnswer,
     offer |-> FALSE, info |-> EmptyDict, model_used |-> "selected_model"]

\* A prompt while no confirmation is pending
IdleTurn(s, prompt, reply, save_ok) ==
  /\ accepts_prompt(s)
  /\ ~pending_ticket_creation[s]
  /\ LET q == classify_query_of[client][prompt][reply]
         r == route(q.query_type, q.query_info, prompt, tickets)
     IN  \/ /\ q.raised
            /\ Fail(s, prompt, FALSE, q.query_type, q.remote_calls)
            /\ UNCHANGED <<pending_ticket_creation, pending_ticket_info, offered>>
         \/ /\ ~q.raised
            /\ q.query_type = "ticket_lookup"
            /\ Fail(s, prompt, FALSE, q.query_type, q.remote_calls)
            /\ UNCHANGED <<pending_ticket_creation, pending_ticket_info, offered>>
         \/ /\ ~q.raised
            /\ Respond(s, prompt, r.response, r.model_used, save_ok)
            /\ last' = Step("turn", s, prompt, FALSE, r.branch, r.response, {}, FALSE,
                            ~save_ok, q.query_type, q.remote_calls)
            /\ pending_ticket_creation' =
                 IF r.offer THEN [pending_ticket_creation EXCEPT ![s] = TRUE]
                            ELSE pending_ticket_creation
            /\ pending_ticket_info' =
                 IF r.offer THEN [pending_ticket_info EXCEPT ![s] = r.info]
                            ELSE pending_ticket_info
            /\ offered' =
                 IF r.offer THEN [offered EXCEPT ![s] = {[prompt |-> prompt,
                                                         intent |-> q.query_type]}]
                            ELSE offered
  /\ budget' = budget - 1
  /\ UNCHANGED <<client, clock, today, users, tickets, user_initialized, pc, frame, classifier_vars>>

\* A prompt with an affirmative word while a confirmation is pending, up to the
\* count of today's tickets inside generate_ticket_id (or the store raising)
ConfirmTurn(s, prompt) ==
  /\ accepts_prompt(s)
  /\ pending_ticket_creation[s]
  /\ is_affirmative_of[prompt]
  /\ \E store_ok \in BOOLEAN :
       IF store_ok
         THEN /\ messages' = [messages EXCEPT ![s] = Append(messages[s], user_message(prompt))]
              /\ pc' = [pc EXCEPT ![s] = "creating"]
              /\ frame' = [frame EXCEPT ![s] =
                             [prompt |-> prompt,
                              ticket_id |-> generate_ticket_id(tickets, Dates[today])]]
              /\ last' = Control("generate_ticket_id", s, FALSE)
              /\ UNCHANGED conversations
         ELSE /\ Fail(s, prompt, TRUE, "", 0)
              /\ UNCHANGED <<pc, frame>>
  /\ budget' = budget - 1
  /\ UNCHANGED <<client, clock, today, users, tickets, user_initialized, pending_ticket_creation,
                 pending_ticket_info, offered, classifier_vars>>

\* ... the commit of the new row succeeds: the rest of the confirmation turn
CreateCommits(s, save_ok) ==
  /\ pc[s] = "creating"
  /\ ~violates_unique(tickets, frame[s].ticket_id)
  /\ LET ticket_info == pending_ticket_info[s]
         prompt == frame[s].prompt
         ticket == confirmed_ticket(frame[s].ticket_id, s, ticket_info, prompt)
         response == ConfirmationResponse(ticket.ticket_id)
     IN  /\ tickets' = Append(tickets, ticket)
         /\ reset_pending(s)
         /\ messages' = [messages EXCEPT ![s] = Append(messages[s], assistant_message(response))]
         /\ conversations' = IF save_ok
                               THEN Append(conversations,
                                           Conversation(s, prompt, response, "support_agent"))
                               ELSE conversations
         /\ last' = Step("turn", s, prompt, TRUE, "confirm", response, {ticket.ticket_id},
                         FALSE, ~save_ok, "", 0)
  /\ offered' = [offered EXCEPT ![s] = {}]
  /\ pc' = [pc EXCEPT ![s] = "idle"]
  /\ frame' = [frame EXCEPT ![s] = NoFrame]
  /\ UNCHANGED <<client, clock, budget, today, users, user_initialized, classifier_vars>>

\* The except handler after create_support_ticket raised inside the turn
CreateRaised_claims_success(s) ==
  /\ messages' = [messages EXCEPT ![s] =
                    Append(messages[s], assistant_message(ConfirmationResponse(frame[s].ticket_id)))]
  /\ last' = Step("turn", s, frame[s].prompt, TRUE, "confirm",
                  ConfirmationResponse(frame[s].ticket_id), {}, FALSE, FALSE, "", 0)
  /\ pc' = [pc EXCEPT ![s] = "idle"]
  /\ frame' = [frame EXCEPT ![s] = NoFrame]
  /\ UNCHANGED <<client, clock, budget, today, store, user_initialized, pending_ticket_creation,
                 pending_ticket_info, offered, classifier_vars>>
CreateRaised(s) ==
  /\ messages' = [messages EXCEPT ![s] = SubSeq(messages[s], 1, Len(messages[s]) - 1)]
  /\ last' = Step("turn", s, frame[s].prompt, TRUE, "failed", <<>>, {}, TRUE, FALSE, "", 0)
  /\ pc' = [pc EXCEPT ![s] = "idle"]
  /\ frame' = [frame EXCEPT ![s] = NoFrame]
  /\ UNCHANGED <<client, clock, budget, today, store, user_initialized, pending_ticket_creation,
                 pending_ticket_info, offered, classifier_vars>>

\* ... the commit is rejected by the unique constraint on ticket_id
CreateRejected(s) ==
  /\ pc[s] = "creating"
  /\ violates_unique(tickets, frame[s].ticket_id)
  /\ CreateRaised(s)

\* ... the store raises for another reason
CreateFails(s) ==
  /\ pc[s] = "creating"
  /\ CreateRaised(s)

\* A prompt with a negative and no affirmative word while a confirmation is pending
DeclineTurn(s, prompt, save_ok) ==
  /\ accepts_prompt(s)
  /\ pending_ticket_creation[s]
  /\ ~is_affirmative_of[prompt]
  /\ is_negative_of[prompt]
  /\ Respond(s, prompt, DeclineResponse, "support_agent", save_ok)
  /\ last' = Step("turn", s, prompt, TRUE, "decline", DeclineResponse, {}, FALSE,
                  ~save_ok, "", 0)
  /\ reset_pending(s)
  /\ offered' = [offered EXCEPT ![s] = {}]
  /\ budget' = budget - 1
  /\ UNCHANGED <<client, clock, today, users, tickets, user_initialized, pc, frame, classifier_vars>>

\* Any other prompt while a confirmation is pending
RepromptTurn_forgets_offer(s, prompt, save_ok) ==
  /\ accepts_prompt(s)
  /\ pending_ticket_creation[s]
  /\ ~is_affirmative_of[prompt]
  /\ ~is_negative_of[prompt]
  /\ Respond(s, prompt, RepromptResponse, "support_agent", save_ok)
  /\ last' = Step("turn", s, prompt, TRUE, "reprompt", RepromptResponse, {}, FALSE,
                  ~save_ok, "", 0)
  /\ budget' = budget - 1
  /\ reset_pending(s)
  /\ UNCHANGED <<client, clock, today, users, tickets, user_initialized, offered, pc, frame,
                 classifier_vars>>
RepromptTurn_classifies(s, prompt, save_ok) ==
  /\ accepts_prompt(s)
  /\ pending_ticket_creation[s]
  /\ ~is_affirmative_of[prompt]
  /\ ~is_negative_of[prompt]
  /\ LET q == classify_query_of[client][prompt][[kind |-> "raises", payload |-> EmptyDict]]
         r == route(q.query_type, q.query_info, prompt, tickets)
         response == IF q.query_type = "ticket_lookup" /\ ~q.raised
                       THEN r.response ELSE RepromptResponse
         branch == IF q.query_type = "ticket_lookup" /\ ~q.raised THEN "lookup" ELSE "reprompt"
     IN  /\ Respond(s, prompt, response, "support_agent", save_ok)
         /\ last' = Step("turn", s, prompt, TRUE, branch, response, {}, FALSE,
                         ~save_ok, q.query_type, q.remote_calls)
  /\ budget' = budget - 1
  /\ UNCHANGED <<client, clock, today, users, tickets, user_initialized, pending_ticket_creation,
                 pending_ticket_info, offered, pc, frame, classifier_vars>>
RepromptTurn(s, prompt, save_ok) ==
  /\ accepts_prompt(s)
  /\ pending_ticket_creation[s]
  /\ ~is_affirmative_of[prompt]
  /\ ~is_negative_of[prompt]
  /\ Respond(s, prompt, RepromptResponse, "support_agent", save_ok)
  /\ last' = Step("turn", s, prompt, TRUE, "reprompt", RepromptResponse, {}, FALSE,
                  ~save_ok, "", 0)
  /\ budget' = budget - 1
  /\ UNCHANGED <<client, clock, today, users, tickets, user_initialized, pending_ticket_creation,
                 pending_ticket_info, offered, pc, frame, classifier_vars>>

\* The "Start Support Session" button
StartSupportSession(s) ==
  /\ ~user_initialized[s]
  /\ \E store_ok \in BOOLEAN :
       /\ users' = IF store_ok THEN users \cup {s} ELSE users
       /\ user_initialized' = [user_initialized EXCEPT ![s] = store_ok]
       /\ last' = Control("start_session", s, ~store_ok)
  /\ UNCHANGED <<client, clock, budget, today, tickets, conversations, messages, pending_ticket_creation,
                 pending_ticket_info, offered, pc, frame, classifier_vars>>

\* The "Clear Chat" button
ClearChat_keeps_pending(s) ==
  /\ user_initialized[s]
  /\ pc[s] = "idle"
  /\ messages' = [messages EXCEPT ![s] = <<>>]
  /\ UNCHANGED <<pending_ticket_creation, pending_ticket_info>>
  /\ offered' = [offered EXCEPT ![s] = {}]
  /\ last' = Control("clear_chat", s, FALSE)
  /\ UNCHANGED <<client, clock, budget, today, store, user_initialized, pc, frame, classifier_vars>>
ClearChat(s) ==
  /\ user_initialized[s]
  /\ pc[s] = "idle"
  /\ messages' = [messages EXCEPT ![s] = <<>>]
  /\ reset_pending(s)
  /\ offered' = [offered EXCEPT ![s] = {}]
  /\ last' = Control("clear_chat", s, FALSE)
  /\ UNCHANGED <<client, clock, budget, today, store, user_initialized, pc, frame, classifier_vars>>

\* Midnight passes
NewDay ==
  /\ today < Len(Dates)
  /\ today' = today + 1
  /\ last' = Control("new_day", "", FALSE)
  /\ UNCHANGED <<client, clock, budget, store, session_state, offered, pc, frame, classifier_vars>>

\* One user's session against every remote reply
User == "s1"

Next ==
  \/ StartSupportSession(User)
  \/ ClearChat(User)
  \/ \E prompt \in Prompts, reply \in DriverReplies, save_ok \in BOOLEAN :
       IdleTurn(User, prompt, reply, save_ok)
  \/ \E prompt \in Prompts : ConfirmTurn(User, prompt)
  \/ \E save_ok \in BOOLEAN : CreateCommits(User, save_ok)
  \/ CreateFails(User)
  \/ \E prompt \in Prompts, save_ok \in BOOLEAN : DeclineTurn(User, prompt, save_ok)
  \/ \E prompt \in Prompts, save_ok \in BOOLEAN : RepromptTurn(User, prompt, save_ok)

Spec == Init /\ [][Next]_vars

\* Two sessions on one store: no Groq client was built (keyword classification)
\* and the conversation saves succeed
NoReply == [kind |-> "raises", payload |-> EmptyDict]

InitShared ==
  /\ client = FALSE
  /\ today = 1
  /\ InitStore
  /\ InitSessions
  /\ last = Control("init", "", FALSE)
  /\ budget = MaxSharedTurns
  /\ query = <<>>
  /\ classified = {}

NextShared ==
  \/ \E s \in Sessions : StartSupportSession(s)
  \/ \E s \in Sessions : ClearChat(s)
  \/ \E s \in Sessions, prompt \in SharedPrompts : IdleTurn(s, prompt, NoReply, TRUE)
  \/ \E s \in Sessions, prompt \in SharedPrompts : ConfirmTurn(s, prompt)
  \/ \E s \in Sessions : CreateCommits(s, TRUE)
  \/ \E s \in Sessions : CreateRejected(s)
  \/ \E s \in Sessions : CreateFails(s)
  \/ \E s \in Sessions, prompt \in SharedPrompts : DeclineTurn(s, prompt, TRUE)
  \/ \E s \in Sessions, prompt \in SharedPrompts : RepromptTurn(s, prompt, TRUE)
  \/ NewDay

SpecShared == InitShared /\ [][NextShared]_vars

\* The same, with the calls of create_support_ticket one after another: no
\* session enters it while another is inside
NextSequential ==
  \/ \E s \in Sessions : StartSupportSession(s)
  \/ \E s \in Sessions : ClearChat(s)
  \/ \E s \in Sessions, prompt \in SharedPrompts : IdleTurn(s, prompt, NoReply, TRUE)
  \/ \E s \in Sessions, prompt \in SharedPrompts :
       (\A t \in Sessions : pc[t] = "idle") /\ ConfirmTurn(s, prompt)
  \/ \E s \in Sessions : CreateCommits(s, TRUE)
  \/ \E s \in Sessions : CreateFails(s)
  \/ \E s \in Sessions, prompt \in SharedPrompts : DeclineTurn(s, prompt, TRUE)
  \/ \E s \in Sessions, prompt \in SharedPrompts : RepromptTurn(s, prompt, TRUE)
  \/ NewDay

SpecSequential == InitShared /\ [][NextSequential]_vars

\* Two sessions with different issues on one day
InitIssues ==
  /\ client = FALSE
  /\ today = 1
  /\ InitStore
  /\ InitSessions
  /\ last = Control("init", "", FALSE)
  /\ budget = MaxIssueTurns
  /\ query = <<>>
  /\ classified = {}

NextIssues ==
  \/ \E s \in Sessions : StartSupportSession(s)
  \/ \E s \in Sessions : ClearChat(s)
  \/ \E s \in Sessions, prompt \in IssuePrompts : IdleTurn(s, prompt, NoReply, TRUE)
  \/ \E s \in Sessions, prompt \in IssuePrompts : ConfirmTurn(s, prompt)
  \/ \E s \in Sessions : CreateCommits(s, TRUE)
  \/ \E s \in Sessions : CreateRejected(s)
  \/ \E s \in Sessions : CreateFails(s)
  \/ \E s \in Sessions, prompt \in IssuePrompts : DeclineTurn(s, prompt, TRUE)
  \/ \E s \in Sessions, prompt \in IssuePrompts : RepromptTurn(s, prompt, TRUE)

SpecIssues == InitIssues /\ [][NextIssues]_vars

----------------------------------------------------------------------------
(* The help desk: a store that holds a ticket of an earlier session, in a
   status the operator gave it, and one user asking; and the operator's calls
   of update_ticket_status on their own *)

\* DatabaseManager.update_ticket_status called by the operator
UpdateTicketStatus(ticket_id, status, assigned_agent) ==
  /\ clock < MaxUpdates
  /\ clock' = clock + 1
  /\ \E store_ok \in BOOLEAN :
       LET u == update_ticket_status(tickets, ticket_id, status, assigned_agent, clock')
       IN  /\ tickets' = IF store_ok THEN u.rows ELSE tickets
           /\ last' = [Control("update_ticket_status", "", ~store_ok) EXCEPT
                         !.prompt = ticket_id,
                         !.args = <<status, assigned_agent>>,
                         !.returned = IF store_ok THEN u.returned ELSE {}]
  /\ UNCHANGED <<client, budget, today, users, conversations, session_state, offered, pc, frame,
                 classifier_vars>>

EarlierTicket ==
  [ticket_id |-> <<"T","C","K","T","-","2","0","2","4","0","1","0","1","-","0","0","1">>, user_session_id |-> "s2",
   issue_description |-> <<"m","y"," ","o","r","d","e","r"," ","i","s"," ","l","a","t","e">>, category |-> "Orders",
   priority |-> "Medium", status |-> <<"O","p","e","n">>,
   created_at |-> 0, updated_at |-> 0, resolved_at |-> {}, assigned_agent |-> {}]

AnotherTicket ==
  [EarlierTicket EXCEPT !.ticket_id = <<"T","C","K","T","-","2","0","2","4","0","1","0","1","-","0","0","2">>,
                        !.issue_description = <<"I"," ","c","a","n","n","o","t"," ","l","o","g","i","n"," ","s","o","o","n">>,
                        !.category = "Technical", !.priority = "High"]

\* The store after at most one update_ticket_status call on that ticket
DeskStores ==
  {<<EarlierTicket>>} \cup
  {update_ticket_status(<<EarlierTicket>>, EarlierTicket.ticket_id, status, {}, 0).rows :
     status \in Statuses}

InitDesk ==
  /\ client = TRUE
  /\ today = 1
  /\ users = {"s2"}
  /\ tickets \in DeskStores
  /\ conversations = <<>>
  /\ clock = 0
  /\ InitSessions
  /\ last = Control("init", "", FALSE)
  /\ budget = MaxDeskTurns
  /\ query = <<>>
  /\ classified = {}

NextDesk ==
  \/ StartSupportSession(User)
  \/ ClearChat(User)
  \/ \E prompt \in DeskPrompts, reply \in DeskReplies : IdleTurn(User, prompt, reply, TRUE)

SpecDesk == InitDesk /\ [][NextDesk]_vars

InitOperator ==
  /\ client = TRUE
  /\ today = 1
  /\ users = {"s2"}
  /\ tickets = <<EarlierTicket, AnotherTicket>>
  /\ conversations = <<>>
  /\ clock = 0
  /\ InitSessions
  /\ last = Control("init", "", FALSE)
  /\ budget = 0
  /\ query = <<>>
  /\ classified = {}

NextOperator ==
  \E ticket_id \in UpdateIds, status \in Statuses, assigned_agent \in Agents :
    UpdateTicketStatus(ticket_id, status, assigned_agent)

SpecOperator == InitOperator /\ [][NextOperator]_vars

----------------------------------------------------------------------------
(* A busy day: the store already holds the tickets issued so far today, one
   user gets a ticket and asks about tickets by the ids that were issued *)

\* The rows of the first n tickets of a day, issued one after another
issued_rows(n, day) ==
  [i \in 1..n |->
     [EarlierTicket EXCEPT !.ticket_id = TicketPrefix \o day \o <<"-">> \o zfill(str(i), 3)]]

\* How a user words a question about a ticket id
Wordings == {"id", "lower", "sentence"}
worded(wording, ticket_id) ==
  IF wording = "id" THEN ticket_id
  ELSE IF wording = "lower" THEN lower(ticket_id)
  ELSE <<"s","t","a","t","u","s"," ","o","f"," ">> \o ticket_id \o <<" ","p","l","e","a","s","e">>

\* A prompt that quotes the id of a stored ticket while no confirmation is pending
AskAboutTicket(s, i, wording) ==
  /\ accepts_prompt(s)
  /\ ~pending_ticket_creation[s]
  /\ i \in 1..Len(tickets)
  /\ LET prompt == worded(wording, tickets[i].ticket_id)
         q == classify_query(client, prompt, NoReply)
         r == route(q.query_type, q.query_info, prompt, tickets)
     IN  IF q.raised
           THEN Fail(s, prompt, FALSE, q.query_type, q.remote_calls)
           ELSE /\ Respond(s, prompt, r.response, r.model_used, TRUE)
                /\ last' = [Step("turn", s, prompt, FALSE, r.branch, r.response, {}, FALSE,
                                 FALSE, q.query_type, q.remote_calls) EXCEPT
                              !.args = <<tickets[i].ticket_id>>]
  /\ budget' = budget - 1
  /\ UNCHANGED <<client, clock, today, users, tickets, user_initialized, pending_ticket_creation,
                 pending_ticket_info, offered, pc, frame, classifier_vars>>

\* The user's session stands after the offer of a return ticket
InitBusyDay ==
  LET prompt == <<"I"," ","w","a","n","t"," ","t","o"," ","r","e","t","u","r","n"," ","t","h","i","s"," ","b","r","o","k","e","n"," ","i","t","e","m">>
      q == classify_query_of[FALSE][prompt][NoReply]
      r == route(q.query_type, q.query_info, prompt, <<>>)
  IN  /\ client = FALSE
      /\ today \in 1..Len(Dates)
      /\ users = {"s2", User}
      /\ tickets \in {issued_rows(n, Dates[1]) : n \in IssuedCounts}
      /\ conversations = <<Conversation(User, prompt, r.response, r.model_used)>>
      /\ clock = 0
      /\ user_initialized = [s \in Sessions |-> s = User]
      /\ messages = [s \in Sessions |->
                       IF s = User THEN <<user_message(prompt), assistant_message(r.response)>>
                                   ELSE <<>>]
      /\ pending_ticket_creation = [s \in Sessions |-> s = User]
      /\ pending_ticket_info = [s \in Sessions |-> IF s = User THEN r.info ELSE EmptyDict]
      /\ pc = [s \in Sessions |-> "idle"]
      /\ frame = [s \in Sessions |-> NoFrame]
      /\ offered = [s \in Sessions |->
                      IF s = User THEN {[prompt |-> prompt, intent |-> q.query_type]} ELSE {}]
      /\ last = Control("init", "", FALSE)
      /\ budget = MaxBusyTurns
      /\ query = <<>>
      /\ classified = {}

NextBusyDay ==
  \/ ConfirmTurn(User, <<"y","e","s">>)
  \/ CreateCommits(User, TRUE)
  \/ CreateFails(User)
  \/ DeclineTurn(User, <<"c","a","n","c","e","l">>, TRUE)
  \/ \E i \in {1, Len(tickets)}, wording \in Wordings : AskAboutTicket(User, i, wording)

SpecBusyDay == InitBusyDay /\ [][NextBusyDay]_vars

----------------------------------------------------------------------------
(* The classifier on its own: one message, one remote reply *)

InitClassify ==
  /\ client \in BOOLEAN
  /\ today = 1
  /\ InitStore
  /\ InitSessions
  /\ last = Control("init", "", FALSE)
  /\ budget = 0
  /\ query \in ClassifyMessages
  /\ classified = {}

Classify ==
  /\ classified = {}
  /\ \E reply \in Replies :
       classified' = {[reply |-> reply,
                       ai |-> classify_query_with_ai(client, query, reply),
                       out |-> classify_query(client, query, reply)]}
  /\ UNCHANGED <<client, clock, budget, today, store, session_state, offered, pc, frame, last, query>>

NextClassify == Classify

SpecClassify == InitClassify /\ [][NextClassify]_vars

----------------------------------------------------------------------------
(* Properties *)

ReturnPrompt == <<"I"," ","w","a","n","t"," ","t","o"," ","r","e","t","u","r","n"," ","t","h","i","s"," ","b","r","o","k","e","n"," ","i","t","e","m">>

\* The parts of a ticket id: TCKT-, the day, -, the sequence number
day_of(ticket_id) == SubSeq(ticket_id, 6, 13)
suffix_of(ticket_id) == SubSeq(ticket_id, 15, Len(ticket_id))
PaddedSuffix == <<<<"0","0","1">>, <<"0","0","2">>, <<"0","0","3">>, <<"0","0","4">>, <<"0","0","5">>>>

\* The rows of one day, and the rank of a row among them in insertion order
rows_of_day(d) == {i \in 1..Len(tickets) : day_of(tickets[i].ticket_id) = Dates[d]}
rank_in_day(i, d) == Cardinality({j \in rows_of_day(d) : j <= i})

\* A policy that cannot answer and offers a ticket
offers_ticket(intent) ==
  /\ intent \in DOMAIN faq_responses
  /\ ~faq_responses[intent]["can_answer"]
  /\ "follow_up" \in DOMAIN faq_responses[intent]

\* C1: while a confirmation is pending, every prompt that contains a negative
\* word (no, cancel, nevermind) ends the turn with no ticket created, the
\* decline acknowledgement shown, and the pending state cleared.
C1_NegativeDeclines ==
  (last.kind = "turn" /\ last.began_pending /\ ~last.error /\ is_negative_of[last.prompt]) =>
    /\ last.created = {}
    /\ last.response = DeclineResponse
    /\ ~pending_ticket_creation[last.session]
    /\ pending_ticket_info[last.session] = EmptyDict

\* "no thank you" answers the offer, and a ticket is created
C1_Witness ==
  /\ last.kind = "turn"
  /\ last.began_pending
  /\ last.prompt = <<"n","o"," ","t","h","a","n","k"," ","y","o","u">>
  /\ is_negative_of[last.prompt]
  /\ last.created # {}
  /\ Len(tickets) = 1
  /\ last.response # DeclineResponse

\* C2: while a confirmation is pending, a prompt that contains an affirmative
\* word (yes, please, create, y) and whose store call succeeds adds exactly one
\* ticket, shows a confirmation that contains the new ticket's id, and leaves
\* the session with the pending flag false and the pending info empty.
C2_ConfirmCreatesOneTicket ==
  [][(/\ last'.kind = "turn"
      /\ last'.began_pending
      /\ is_affirmative_of[last'.prompt]
      /\ ~last'.error) =>
       /\ Len(tickets') = Len(tickets) + 1
       /\ SubSeq(tickets', 1, Len(tickets)) = tickets
       /\ LET t == tickets'[Len(tickets')]
          IN  /\ t.user_session_id = last'.session
              /\ \E i \in 1..Len(last'.response) : last'.response[i] = join(t.ticket_id)
              /\ last'.response = ConfirmationResponse(t.ticket_id)
       /\ ~pending_ticket_creation'[last'.session]
       /\ pending_ticket_info'[last'.session] = EmptyDict
       /\ pc'[last'.session] = "idle"]_vars

C2_Witness ==
  /\ last.kind = "turn"
  /\ last.began_pending
  /\ is_affirmative_of[last.prompt]
  /\ ~last.error
  /\ Len(tickets) = 1
  /\ ~pending_ticket_creation[last.session]

\* C3: with no confirmation pending, a prompt whose classified intent has a
\* policy with can_answer false and a follow_up sets the pending flag, stores
\* {description: the prompt, category: ticket_category(intent), priority:
\* ticket_priority(prompt)}, shows the response followed by the follow_up, and
\* creates no ticket.
C3_OfferSetsPending ==
  [][(/\ last'.kind = "turn"
      /\ ~last'.began_pending
      /\ offers_ticket(last'.query_type)) =>
       /\ ~last'.error
       /\ pending_ticket_creation'[last'.session]
       /\ pending_ticket_info'[last'.session] =
            [description |-> last'.prompt,
             category |-> get_ticket_category(last'.query_type),
             priority |-> get_ticket_priority(last'.prompt)]
       /\ last'.response = <<faq_responses[last'.query_type]["response"], "\n\n",
                             faq_responses[last'.query_type]["follow_up"]>>
       /\ tickets' = tickets]_vars

C3_Witness ==
  /\ last.kind = "turn"
  /\ ~last.began_pending
  /\ last.query_type = "return"
  /\ last.prompt = ReturnPrompt
  /\ pending_ticket_creation[last.session]
  /\ pending_ticket_info[last.session]["priority"] = "Urgent"

\* C4: while a confirmation is pending, a prompt with neither an affirmative
\* nor a negative word gets the yes/no re-prompt; the pending flag stays set,
\* the pending description, category and priority are unchanged, and so are
\* the tickets.
C4_RepromptChangesNothing ==
  [][(/\ last'.kind = "turn"
      /\ last'.began_pending
      /\ ~is_affirmative_of[last'.prompt]
      /\ ~is_negative_of[last'.prompt]) =>
       /\ last'.response = RepromptResponse
       /\ pending_ticket_creation[last'.session]
       /\ pending_ticket_creation'[last'.session]
       /\ {"description", "category", "priority"} \subseteq DOMAIN pending_ticket_info[last'.session]
       /\ pending_ticket_info'[last'.session] = pending_ticket_info[last'.session]
       /\ pc'[last'.session] = "idle"
       /\ tickets' = tickets]_vars

C4_Witness ==
  /\ last.kind = "turn"
  /\ last.began_pending
  /\ last.branch = "reprompt"
  /\ ~is_affirmative_of[last.prompt]
  /\ ~is_negative_of[last.prompt]
  /\ pending_ticket_creation[last.session]

\* C5: the ticket a confirmation creates carries the prompt that triggered the
\* offer as issue_description, ticket_category of that prompt's intent,
\* ticket_priority of that prompt, the confirming session's id and status Open;
\* the return prompt classified as return gives category Returns and priority
\* Urgent.
C5_TicketCarriesOfferData ==
  [][Len(tickets') > Len(tickets) =>
       LET t == tickets'[Len(tickets')]
           s == last'.session
       IN  /\ last'.kind = "turn"
           /\ last'.began_pending
           /\ offered[s] # {}
           /\ \A o \in offered[s] :
                /\ t.issue_description = o.prompt
                /\ t.category = get_ticket_category(o.intent)
                /\ t.priority = get_ticket_priority(o.prompt)
                /\ (o.prompt = ReturnPrompt /\ o.intent = "return") =>
                     (t.category = "Returns" /\ t.priority = "Urgent")
           /\ t.user_session_id = s
           /\ t.status = <<"O","p","e","n">>]_vars

C5_Witness ==
  /\ last.kind = "turn"
  /\ last.branch = "confirm"
  /\ last.prompt = <<"y","e","s">>
  /\ Len(tickets) = 1
  /\ tickets[1].issue_description = ReturnPrompt
  /\ tickets[1].category = "Returns"
  /\ tickets[1].priority = "Urgent"

\* C6: a ticket is only added by a turn that began with the pending flag set,
\* the flag is only set while an offer turn of the same session stands (no
\* confirmation, decline or chat reset since), and a turn that begins with the
\* flag clear adds no ticket.
C6_TicketsOnlyAfterOffer ==
  /\ [](\A s \in Sessions : pending_ticket_creation[s] => offered[s] # {})
  /\ [][Len(tickets') # Len(tickets) =>
          /\ Len(tickets') = Len(tickets) + 1
          /\ last'.kind = "turn"
          /\ last'.began_pending
          /\ tickets'[Len(tickets')].user_session_id = last'.session
          /\ pending_ticket_creation[last'.session]
          /\ offered[last'.session] # {}]_vars
  /\ [][(last'.kind = "turn" /\ ~last'.began_pending) => tickets' = tickets]_vars

C6_Witness ==
  /\ Len(tickets) = 1
  /\ last.kind = "turn"
  /\ last.began_pending
  /\ last.created # {}
  /\ tickets[1].user_session_id = last.session

\* C7: in every state of the store, also after interleaved calls of
\* create_support_ticket by two sessions on one day, no two tickets share a
\* ticket_id and the sequence numbers of the N tickets of a day are 001..00N.
C7_UniqueDailySequence ==
  /\ \A i, j \in 1..Len(tickets) :
       i # j => tickets[i].ticket_id # tickets[j].ticket_id
  /\ \A d \in 1..Len(Dates) :
       {suffix_of(tickets[i].ticket_id) : i \in rows_of_day(d)}
         = {PaddedSuffix[k] : k \in 1..Cardinality(rows_of_day(d))}
  /\ \A i \in 1..Len(tickets) : \E d \in 1..Len(Dates) : i \in rows_of_day(d)

\* two calls were inside create_support_ticket with the same id, and one has committed
C7_Witness ==
  \E s \in Sessions :
    /\ pc[s] = "creating"
    /\ \E i \in 1..Len(tickets) :
         /\ tickets[i].ticket_id = frame[s].ticket_id
         /\ tickets[i].user_session_id # s

\* C8: when the calls of create_support_ticket do not overlap, none is
\* rejected, and the k-th ticket stored for a day has sequence number 00k.
C8_SequentialIds ==
  /\ \A s \in Sessions :
       pc[s] = "creating" => ~violates_unique(tickets, frame[s].ticket_id)
  /\ \A d \in 1..Len(Dates) : \A i \in rows_of_day(d) :
       suffix_of(tickets[i].ticket_id) = PaddedSuffix[rank_in_day(i, d)]
  /\ \A i, j \in 1..Len(tickets) :
       i # j => tickets[i].ticket_id # tickets[j].ticket_id

C8_Witness ==
  /\ Len(tickets) = 2
  /\ day_of(tickets[1].ticket_id) = day_of(tickets[2].ticket_id)
  /\ suffix_of(tickets[2].ticket_id) = <<"0","0","2">>
  /\ \A s \in Sessions : pc[s] = "idle"

\* C9: a message that contains, in any letter case, TCKT- 8 digits - 3 digits
\* is classified ticket_lookup with confidence 0.99 whether or not a client is
\* set, whatever the remote would reply and whatever else it contains, and no
\* remote call is made.
C9_TicketIdAlwaysLookup ==
  \A c \in classified :
    re_search(upper(query)) # {} =>
      /\ c.ai.result.intent = "ticket_lookup"
      /\ c.ai.result.confidence = 99
      /\ c.ai.remote_calls = 0

C9_Witness ==
  \E c \in classified :
    /\ query = <<"t","c","k","t","-","2","0","2","4","0","1","0","1","-","0","0","1">>
    /\ client
    /\ c.reply.kind = "object"
    /\ get(c.reply.payload, "intent", "complex") = "greeting"
    /\ c.ai.result.intent = "ticket_lookup"

\* C10 as claimed: a remote reply that parses to an object whose intent is not
\* a known label makes the classifier return what the keyword fallback returns.
C10_UnknownIntentFallsBack ==
  \A c \in classified :
    (/\ c.ai.remote_calls = 1
     /\ c.reply.kind = "object"
     /\ get(c.reply.payload, "intent", "complex") \notin valid_intents) =>
      c.ai.result = _fallback_classification(query)

\* C10: a remote reply that parses to an object whose intent is not a known
\* label makes the classifier return intent complex with confidence 0.5 and
\* the reply's reasoning ('AI classification' when it has none); the keyword
\* fallback is not consulted.
C10_UnknownIntentIsComplex ==
  \A c \in classified :
    (/\ c.ai.remote_calls = 1
     /\ c.reply.kind = "object"
     /\ get(c.reply.payload, "intent", "complex") \notin valid_intents) =>
      /\ c.ai.result.intent = "complex"
      /\ c.ai.result.confidence = 50
      /\ c.ai.result.reasoning = get(c.reply.payload, "reasoning", "AI classification")

C10_Witness ==
  \E c \in classified :
    /\ query = <<"r","e","f","u","n","d"," ","o","r"," ","r","e","t","u","r","n">>
    /\ c.ai.remote_calls = 1
    /\ c.reply.kind = "object"
    /\ get(c.reply.payload, "intent", "complex") = "billing_dispute"
    /\ c.ai.result.intent = "complex"
    /\ _fallback_classification(query).intent = "refund"

\* A policy that cannot answer and has no follow_up
no_follow_up_policy(intent) ==
  /\ intent \in DOMAIN faq_responses
  /\ ~faq_responses[intent]["can_answer"]
  /\ "follow_up" \notin DOMAIN faq_responses[intent]

\* The conversation row a completed turn saves
saved_row(step) ==
  [user_session_id |-> step.session, message |-> step.prompt, response |-> step.response,
   model_used |-> "support_agent"]

\* C11: a classification calls the remote service at most once, and when there
\* is no client, the call raises, or the reply is not parsable JSON, it returns
\* in that same call what the keyword fallback returns for the message, and
\* classify_query does not raise.
C11_FailuresFallBack ==
  \A c \in classified :
    /\ c.ai.remote_calls \in {0, 1}
    /\ (\/ ~client
        \/ c.ai.remote_calls = 1 /\ c.reply.kind \in {"raises", "not_json"}) =>
         /\ c.ai.result = _fallback_classification(query)
         /\ ~c.out.raised
         /\ c.out.query_type = _fallback_classification(query).intent
         /\ c.out.remote_calls = c.ai.remote_calls

C11_Witness ==
  \E c \in classified :
    /\ client
    /\ query = <<"r","e","f","u","n","d"," ","o","r"," ","r","e","t","u","r","n">>
    /\ c.reply.kind = "raises"
    /\ c.ai.remote_calls = 1
    /\ c.ai.result = Result("refund", 70, "Refund keywords")

\* C12: a turn in which the classifier reports ticket_lookup for a prompt with
\* no TCKT-dddddddd-ddd in it completes with a response and shows no error.
C12_MalformedLookupIsNotFound ==
  (/\ last.kind = "turn"
   /\ ~last.began_pending
   /\ last.query_type = "ticket_lookup"
   /\ re_search(upper(last.prompt)) = {}) =>
     (~last.error /\ last.response # <<>>)

\* the remote reply says ticket_lookup for "hmm", and the turn ends in st.error
C12_Witness ==
  /\ last.kind = "turn"
  /\ last.prompt = <<"h","m","m">>
  /\ last.query_type = "ticket_lookup"
  /\ last.remote_calls = 1
  /\ last.error
  /\ last.response = <<>>
  /\ messages[last.session] = <<>>

\* C13 as claimed: with no confirmation pending, a prompt whose policy cannot
\* answer and has no follow_up (ticket_request) gets the free-form answer of
\* the chat model, and its conversation row names the selected model.
C13_NoFollowUpDelegates ==
  (/\ last.kind = "turn"
   /\ ~last.began_pending
   /\ ~last.error
   /\ no_follow_up_policy(last.query_type)) =>
     /\ last.response = FreeFormAnswer
     /\ ~last.warning =>
          conversations[Len(conversations)].model_used = "selected_model"

\* C13: with no confirmation pending, a prompt whose policy cannot answer and
\* has no follow_up (ticket_request) is answered with the policy's canned
\* response, not by the chat model; the conversation row names support_agent,
\* and the pending state and the tickets are unchanged.
C13_NoFollowUpGetsCannedResponse ==
  [][(/\ last'.kind = "turn"
      /\ ~last'.began_pending
      /\ no_follow_up_policy(last'.query_type)) =>
       /\ ~last'.error
       /\ last'.response = <<faq_responses[last'.query_type]["response"]>>
       /\ last'.response # FreeFormAnswer
       /\ conversations' = IF last'.warning THEN conversations
                           ELSE Append(conversations, saved_row(last'))
       /\ UNCHANGED <<pending_ticket_creation, pending_ticket_info, tickets>>]_vars

C13_Witness ==
  /\ last.kind = "turn"
  /\ ~last.began_pending
  /\ last.query_type = "ticket_request"
  /\ last.response = <<"I'd be happy to create a support ticket for you. Could you please describe your issue in detail?">>
  /\ ~last.warning
  /\ conversations[Len(conversations)].model_used = "support_agent"
  /\ ~pending_ticket_creation[last.session]

C16_SaveFailureIsOnlyWarned ==
  [][(last'.kind = "turn" /\ last'.warning) =>
       LET s == last'.session
           n == Len(messages'[s])
           affirmative == is_affirmative_of[last'.prompt]
           negative == is_negative_of[last'.prompt]
       IN  /\ ~last'.error
           /\ last'.response # <<>>
           /\ n >= 2
           /\ messages'[s][n - 1] = user_message(last'.prompt)
           /\ messages'[s][n] = assistant_message(last'.response)
           /\ conversations' = conversations
           /\ (~last'.began_pending /\ offers_ticket(last'.query_type)) =>
                /\ pending_ticket_creation'[s]
                /\ pending_ticket_info'[s] = offer_info(last'.prompt, last'.query_type)
           /\ (~last'.began_pending /\ ~offers_ticket(last'.query_type)) =>
                /\ ~pending_ticket_creation'[s]
           /\ (last'.began_pending /\ affirmative) =>
                /\ Len(tickets') = Len(tickets) + 1
                /\ last'.created = {tickets'[Len(tickets')].ticket_id}
                /\ last'.response = ConfirmationResponse(tickets'[Len(tickets')].ticket_id)
                /\ ~pending_ticket_creation'[s]
                /\ pending_ticket_info'[s] = EmptyDict
           /\ (last'.began_pending /\ ~affirmative /\ negative) =>
                /\ ~pending_ticket_creation'[s]
                /\ pending_ticket_info'[s] = EmptyDict
           /\ (last'.began_pending /\ ~affirmative /\ ~negative) =>
                /\ pending_ticket_creation'[s]
                /\ pending_ticket_info'[s] = pending_ticket_info[s]]_vars

C16_Witness ==
  /\ last.kind = "turn"
  /\ last.warning
  /\ last.began_pending
  /\ last.created # {}
  /\ Len(tickets) = 1
  /\ ~pending_ticket_creation[last.session]
  /\ \A i \in 1..Len(conversations) : conversations[i].message # last.prompt
  /\ messages[last.session][Len(messages[last.session])] = assistant_message(last.response)

\* C17: a ticket-lookup turn that begins with no confirmation pending changes
\* neither the pending state nor the tickets; when it completes, its response
\* is the not-found message quoting the upper-cased id extracted from the
\* message exactly when no stored ticket has that id, and otherwise the status
\* narrative of the ticket with that id, so an id typed in lower case finds
\* the ticket.
C17_LookupOnlyReads ==
  [][(/\ last'.kind = "turn"
      /\ ~last'.began_pending
      /\ last'.query_type = "ticket_lookup") =>
       /\ tickets' = tickets
       /\ pending_ticket_creation' = pending_ticket_creation
       /\ pending_ticket_info' = pending_ticket_info
       /\ ~pending_ticket_creation'[last'.session]
       /\ ~last'.error =>
            \E ticket_id \in re_search(upper(last'.prompt)) :
              LET held == {i \in 1..Len(tickets) : tickets[i].ticket_id = ticket_id}
              IN  /\ (held = {}) <=> (last'.response = NotFoundResponse(ticket_id))
                  /\ held # {} =>
                       \E i \in held : last'.response = FoundResponse(tickets[i])]_vars

\* an id typed in lower case found the stored ticket, whose status is reported
C17_Witness ==
  /\ last.kind = "turn"
  /\ ~last.began_pending
  /\ ~last.error
  /\ last.query_type = "ticket_lookup"
  /\ last.prompt = <<"t","c","k","t","-","2","0","2","4","0","1","0","1","-","0","0","1">>
  /\ Len(tickets) = 1
  /\ tickets[1].ticket_id = <<"T","C","K","T","-","2","0","2","4","0","1","0","1","-","0","0","1">>
  /\ tickets[1].status = <<"C","L","O","S","E","D">>
  /\ last.response = FoundResponse(tickets[1])
  /\ last.response # NotFoundResponse(<<"T","C","K","T","-","2","0","2","4","0","1","0","1","-","0","0","1">>)

\* C18: with no confirmation pending, a message whose policy has can_answer
\* true (shipping, refund, order_status, greeting, ticket_status_request) is
\* answered with exactly the policy's response; the pending flag stays false,
\* the pending info stays empty and the tickets are unchanged.
C18_CanAnswerIsCanned ==
  /\ {i \in DOMAIN faq_responses : faq_responses[i]["can_answer"]}
       = {"shipping", "refund", "order_status", "greeting", "ticket_status_request"}
  /\ [][(/\ last'.kind = "turn"
         /\ ~last'.began_pending
         /\ last'.query_type \in DOMAIN faq_responses
         /\ faq_responses[last'.query_type]["can_answer"]) =>
          /\ ~last'.error
          /\ last'.response = <<faq_responses[last'.query_type]["response"]>>
          /\ pending_ticket_creation' = pending_ticket_creation
          /\ pending_ticket_info' = pending_ticket_info
          /\ ~pending_ticket_creation'[last'.session]
          /\ pending_ticket_info'[last'.session] = EmptyDict
          /\ pc'[last'.session] = "idle"
          /\ tickets' = tickets]_vars

C18_Witness ==
  /\ last.kind = "turn"
  /\ ~last.began_pending
  /\ ~last.error
  /\ last.query_type = "shipping"
  /\ last.response = <<faq_responses["shipping"]["response"]>>
  /\ ~pending_ticket_creation[last.session]
  /\ Len(messages[last.session]) = 2

\* C19: sessions are isolated: in every interleaving of the turns of two
\* sessions, a step of one session (offer, confirm, decline, re-prompt, clear
\* chat, or any other) leaves the pending flag, the pending info and the
\* message history of the other session unchanged, and a ticket that a
\* confirmation creates carries the confirming session's id and that session's
\* pending description.
C19_SessionsAreIsolated ==
  [][/\ \A t \in Sessions :
          t # last'.session =>
            /\ pending_ticket_creation'[t] = pending_ticket_creation[t]
            /\ pending_ticket_info'[t] = pending_ticket_info[t]
            /\ messages'[t] = messages[t]
     /\ Len(tickets') > Len(tickets) =>
          LET ticket == tickets'[Len(tickets')]
              A == last'.session
          IN  /\ A \in Sessions
              /\ last'.branch = "confirm"
              /\ ticket.user_session_id = A
              /\ "description" \in DOMAIN pending_ticket_info[A]
              /\ ticket.issue_description = pending_ticket_info[A]["description"]]_vars

\* s1 confirmed its return while s2's offer about the login stands
C19_Witness ==
  /\ last.kind = "turn"
  /\ last.session = "s1"
  /\ last.branch = "confirm"
  /\ Len(tickets) = 1
  /\ tickets[1].user_session_id = "s1"
  /\ tickets[1].issue_description = ReturnPrompt
  /\ ~pending_ticket_creation["s1"]
  /\ pending_ticket_creation["s2"]
  /\ pending_ticket_info["s2"]["description"] = <<"I"," ","c","a","n","n","o","t"," ","l","o","g","i","n"," ","s","o","o","n">>
  /\ Len(messages["s2"]) = 2

\* C20: after any sequence of update_ticket_status calls, every ticket whose
\* status is resolved or closed in any letter case has resolved_at set; a call
\* whose id matches a stored ticket in any letter case sets that ticket's status
\* and updated_at, returns it and changes no other ticket; a call on an unknown
\* id returns None and changes no ticket.
C20_UpdateStampsTickets ==
  /\ [](\A i \in 1..Len(tickets) :
          lower(tickets[i].status) \in {<<"r","e","s","o","l","v","e","d">>, <<"c","l","o","s","e","d">>} =>
            tickets[i].resolved_at # {})
  /\ [][(last'.kind = "update_ticket_status" /\ ~last'.error) =>
          LET held == {i \in 1..Len(tickets) : tickets[i].ticket_id = upper(last'.prompt)}
          IN  /\ Len(tickets') = Len(tickets)
              /\ \A i \in 1..Len(tickets) : i \notin held => tickets'[i] = tickets[i]
              /\ held = {} => last'.returned = {}
              /\ \A i \in held :
                   /\ last'.returned = {tickets'[i]}
                   /\ tickets'[i].status = last'.args[1]
                   /\ tickets'[i].updated_at = clock'
                   /\ tickets'[i].updated_at > tickets[i].updated_at
                   /\ tickets'[i].ticket_id = tickets[i].ticket_id
                   /\ tickets'[i].issue_description = tickets[i].issue_description]_vars

\* a call with the id in lower case and the status in upper case closed the ticket
C20_Witness ==
  /\ last.kind = "update_ticket_status"
  /\ ~last.error
  /\ last.prompt = <<"t","c","k","t","-","2","0","2","4","0","1","0","1","-","0","0","1">>
  /\ last.args[1] = <<"C","L","O","S","E","D">>
  /\ last.returned = {tickets[1]}
  /\ tickets[1].status = <<"C","L","O","S","E","D">>
  /\ tickets[1].resolved_at = {clock}
  /\ tickets[1].updated_at = clock
  /\ tickets[2] = AnotherTicket

\* C21: every result the classifier returns, on the remote path as on the
\* fallback path, has an intent among the 11 known labels and a confidence
\* within [0, 1] (0..100 hundredths).
C21_ResultIsWellFormed ==
  \A c \in classified :
    /\ c.ai.result.intent \in valid_intents
    /\ c.ai.result.confidence \in 0..100

\* a remote reply with a known intent and confidence 1.5 is returned as it is
C21_Witness ==
  \E c \in classified :
    /\ client
    /\ c.ai.remote_calls = 1
    /\ c.reply.kind = "object"
    /\ c.reply.payload = [intent |-> "greeting", confidence |-> 150, reasoning |-> "remote"]
    /\ c.ai.result.intent = "greeting"
    /\ c.ai.result.confidence = 150
    /\ ~c.out.raised
    /\ c.out.query_info["ai_confidence"] = 150

\* The rules of the keyword fallback in their order: whether rule k matches
\* a message, and what it returns
FallbackIntents ==
  <<"ticket_lookup", "ticket_status_request", "greeting", "shipping", "refund", "return",
    "login", "account", "order_status", "ticket_request">>
FallbackConfidences == <<99, 80, 90, 70, 70, 70, 70, 70, 70, 80>>
FallbackKeywords ==
  <<{}, {<<"c","h","e","c","k"," ","s","t","a","t","u","s">>, <<"t","i","c","k","e","t"," ","s","t","a","t","u","s">>, <<"s","t","a","t","u","s"," ","o","f"," ","m","y"," ","t","i","c","k","e","t">>},
    {<<"h","i">>, <<"h","e","l","l","o">>, <<"h","e","y">>}, {<<"s","h","i","p">>, <<"d","e","l","i","v","e","r","y">>, <<"t","r","a","c","k","i","n","g">>},
    {<<"r","e","f","u","n","d">>, <<"m","o","n","e","y"," ","b","a","c","k">>}, {<<"r","e","t","u","r","n">>, <<"e","x","c","h","a","n","g","e">>, <<"b","r","o","k","e","n">>},
    {<<"l","o","g","i","n">>, <<"p","a","s","s","w","o","r","d">>, <<"s","i","g","n"," ","i","n">>}, {<<"a","c","c","o","u","n","t">>, <<"p","r","o","f","i","l","e">>, <<"b","i","l","l","i","n","g">>},
    {<<"o","r","d","e","r"," ","s","t","a","t","u","s">>, <<"w","h","e","r","e"," ","i","s"," ","m","y"," ","o","r","d","e","r">>},
    {<<"c","r","e","a","t","e"," ","t","i","c","k","e","t">>, <<"n","e","w"," ","t","i","c","k","e","t">>, <<"n","e","e","d"," ","h","e","l","p">>}>>
rule_matches(k, m) ==
  IF k = 1 THEN re_search(upper(m)) # {}
  ELSE /\ \E w \in FallbackKeywords[k] : contains(w, lower(m))
       /\ k = 3 => split_len(lower(m)) <= 3
matching_rules(m) == {k \in 1..Len(FallbackIntents) : rule_matches(k, m)}

\* C22: the keyword fallback returns the outcome of the first rule that
\* matches in the order ticket id, status-check phrases, greeting (at most 3
\* tokens), shipping, refund, return, login, account, order status, ticket
\* creation, and complex with 0.5 when none matches; a message with a refund
\* and a return keyword is refund, one with a status-check phrase and a
\* shipping keyword is ticket_status_request.
C22_FirstRuleWins ==
  \A c \in classified :
    ~client =>
      LET first == CHOOSE k \in matching_rules(query) : \A j \in matching_rules(query) : k <= j
      IN  /\ c.ai.remote_calls = 0
          /\ matching_rules(query) = {} =>
               (c.ai.result.intent = "complex" /\ c.ai.result.confidence = 50)
          /\ matching_rules(query) # {} =>
               /\ c.ai.result.intent = FallbackIntents[first]
               /\ c.ai.result.confidence = FallbackConfidences[first]
          /\ query = <<"r","e","f","u","n","d"," ","o","r"," ","r","e","t","u","r","n">> => c.ai.result.intent = "refund"
          /\ query = <<"c","h","e","c","k"," ","s","t","a","t","u","s"," ","o","f"," ","m","y"," ","d","e","l","i","v","e","r","y">> =>
               c.ai.result.intent = "ticket_status_request"

C22_Witness ==
  \E c \in classified :
    /\ ~client
    /\ query = <<"r","e","f","u","n","d"," ","o","r"," ","r","e","t","u","r","n">>
    /\ {5, 6} \subseteq matching_rules(query)
    /\ c.ai.result = Result("refund", 70, "Refund keywords")

\* s.split() as a set: the maximal runs of non-blank characters
split_words(s) ==
  {SubSeq(s, i, j) : <<i, j>> \in
     {<<a, b>> \in (1..Len(s)) \X (1..Len(s)) :
        /\ a <= b
        /\ \A k \in a..b : s[k] # " "
        /\ (a = 1 \/ s[a - 1] = " ")
        /\ (b = Len(s) \/ s[b + 1] = " ")}}

\* C23: on the fallback path, a message with a shipping keyword (ship,
\* delivery, tracking), no ticket id, no status-check phrase, and none of whose
\* words is hi, hello or hey, is classified shipping with confidence 0.7
\* whatever its length; greeting is returned only when one of the words of a
\* message of at most 3 tokens is a greeting word.
C23_ShippingBeatsLength ==
  \A c \in classified :
    ~client =>
      LET message_lower == lower(query)
          greets == split_words(message_lower) \cap {<<"h","i">>, <<"h","e","l","l","o">>, <<"h","e","y">>} # {}
      IN  /\ (/\ any_in({<<"s","h","i","p">>, <<"d","e","l","i","v","e","r","y">>, <<"t","r","a","c","k","i","n","g">>}, message_lower)
              /\ re_search(upper(query)) = {}
              /\ ~any_in({<<"c","h","e","c","k"," ","s","t","a","t","u","s">>, <<"t","i","c","k","e","t"," ","s","t","a","t","u","s">>, <<"s","t","a","t","u","s"," ","o","f"," ","m","y"," ","t","i","c","k","e","t">>},
                         message_lower)
              /\ ~greets) =>
               (c.ai.result.intent = "shipping" /\ c.ai.result.confidence = 70)
          /\ c.ai.result.intent = "greeting" =>
               (greets /\ split_len(message_lower) <= 3)

\* 'shipping cost' is answered as a greeting: 'hi' is inside 'shipping'
C23_Witness ==
  \E c \in classified :
    /\ ~client
    /\ query = <<"s","h","i","p","p","i","n","g"," ","c","o","s","t">>
    /\ split_words(lower(query)) = {<<"s","h","i","p","p","i","n","g">>, <<"c","o","s","t">>}
    /\ contains(<<"h","i">>, lower(query))
    /\ c.ai.result = Result("greeting", 90, "Simple greeting")
    /\ c.out.query_type = "greeting"

\* C24: the daily sequence race is reachable: two create_support_ticket calls
\* of one day can both count the same tickets and generate the same ticket_id;
\* once the first has committed, the other call can only end rejected, with an
\* error, no ticket added and its confirmation still pending, so a confirmed
\* request ends without a ticket.
C24_CollidingCreateLosesTicket ==
  /\ [](\A s, t \in Sessions :
          (s # t /\ pc[s] = "creating" /\ pc[t] = "creating"
             /\ day_of(frame[s].ticket_id) = day_of(frame[t].ticket_id)
             /\ \A i \in 1..Len(tickets) :
                  day_of(tickets[i].ticket_id) # day_of(frame[s].ticket_id)) =>
            frame[s].ticket_id = frame[t].ticket_id)
  /\ [][\A s \in Sessions :
          (/\ pc[s] = "creating"
           /\ \E i \in 1..Len(tickets) : tickets[i].ticket_id = frame[s].ticket_id
           /\ pc'[s] # "creating") =>
            /\ tickets' = tickets
            /\ last'.kind = "turn"
            /\ last'.session = s
            /\ last'.began_pending
            /\ last'.error
            /\ last'.created = {}
            /\ pending_ticket_creation'[s]
            /\ \A i \in 1..Len(tickets') : tickets'[i].ticket_id = frame[s].ticket_id =>
                 tickets'[i].user_session_id # s]_vars

\* both sessions are inside create_support_ticket with the id 001 of the day
C24_Witness ==
  /\ pc["s1"] = "creating"
  /\ pc["s2"] = "creating"
  /\ tickets = <<>>
  /\ frame["s1"].ticket_id = frame["s2"].ticket_id
  /\ suffix_of(frame["s1"].ticket_id) = <<"0","0","1">>

\* TCKT- + 8 digits + - + exactly 3 digits
well_formed_id(ticket_id) == Len(ticket_id) = 17 /\ ticket_pattern_at(ticket_id, 1)

\* C25: every id generate_ticket_id produces, whatever the number of tickets
\* already created that day, is TCKT- + 8 digits + - + exactly 3 digits, so
\* the id the ticket-id pattern extracts from a message that quotes an issued
\* id is that whole id.
C25_IdsHaveThreeDigits ==
  /\ \A i \in 1..Len(tickets) : well_formed_id(tickets[i].ticket_id)
  /\ \A s \in Sessions : pc[s] = "creating" => well_formed_id(frame[s].ticket_id)
  /\ (last.kind = "turn" /\ last.branch = "lookup") =>
       re_search(upper(last.prompt)) = {last.args[1]}

\* the 1000th ticket of the day got the id ...-1000, and the question about it
\* is answered with the status of ticket ...-100
C25_Witness ==
  /\ Len(tickets) = 1000
  /\ tickets[1000].ticket_id = <<"T","C","K","T","-","2","0","2","4","0","1","0","1","-","1","0","0","0">>
  /\ tickets[1000].user_session_id = User
  /\ last.kind = "turn"
  /\ last.branch = "lookup"
  /\ last.args = <<<<"T","C","K","T","-","2","0","2","4","0","1","0","1","-","1","0","0","0">>>>
  /\ re_search(upper(last.prompt)) = {<<"T","C","K","T","-","2","0","2","4","0","1","0","1","-","1","0","0">>}
  /\ last.response = FoundResponse(tickets[100])

\* C26: the pending state is set only by a ticket-offer turn and cleared only
\* by a confirmation, a decline or the chat reset; the chat reset, from any
\* state, empties the message history, sets the pending flag to false and the
\* pending info to empty, and leaves the tickets and the Conversation rows
\* unchanged.
C26_PendingSetAndCleared ==
  [][\A s \in Sessions :
       /\ (~pending_ticket_creation[s] /\ pending_ticket_creation'[s]) =>
            (last'.kind = "turn" /\ last'.session = s /\ last'.branch = "offer")
       /\ (pending_ticket_creation[s] /\ ~pending_ticket_creation'[s]) =>
            /\ last'.session = s
            /\ \/ last'.kind = "turn" /\ last'.branch \in {"confirm", "decline"}
               \/ last'.kind = "clear_chat"
       /\ pending_ticket_info'[s] # pending_ticket_info[s] =>
            /\ last'.session = s
            /\ \/ last'.kind = "turn" /\ last'.branch \in {"offer", "confirm", "decline"}
               \/ last'.kind = "clear_chat"
       /\ (last'.kind = "clear_chat" /\ last'.session = s) =>
            /\ messages'[s] = <<>>
            /\ ~pending_ticket_creation'[s]
            /\ pending_ticket_info'[s] = EmptyDict
            /\ tickets' = tickets
            /\ conversations' = conversations]_vars

\* the chat was cleared while the offer of the only turn so far was pending
C26_Witness ==
  /\ last.kind = "clear_chat"
  /\ budget = MaxTurns - 1
  /\ Len(conversations) = 1
  /\ Len(conversations[1].response) = 3
  /\ conversations[1].response[2] = "\n\n"
  /\ messages[last.session] = <<>>
  /\ ~pending_ticket_creation[last.session]
  /\ pending_ticket_info[last.session] = EmptyDict

\* The categories get_ticket_category can return
TicketCategories ==
  {category_map[t] : t \in DOMAIN category_map} \cup {"General Support"}

\* C27: in every reachable state and for every session, the pending flag is
\* true exactly when the pending info holds a description, a category and a
\* priority, and false exactly when the pending info is empty; when the flag
\* is true the priority is Urgent, High or Medium and the category is one that
\* ticket_category returns.
C27_FlagAndInfoAgree ==
  \A s \in Sessions :
    /\ pending_ticket_creation[s] <=>
         DOMAIN pending_ticket_info[s] = {"description", "category", "priority"}
    /\ ~pending_ticket_creation[s] <=> pending_ticket_info[s] = EmptyDict
    /\ pending_ticket_creation[s] =>
         /\ pending_ticket_info[s]["priority"] \in {"Urgent", "High", "Medium"}
         /\ pending_ticket_info[s]["category"] \in TicketCategories
         /\ pending_ticket_info[s]["description"] \in Prompts

\* an offer for a message of no known category is pending
C27_Witness ==
  /\ pending_ticket_creation[User]
  /\ pending_ticket_info[User] =
       [description |-> <<"h","m","m">>, category |-> "General Support", priority |-> "Medium"]
  /\ last.kind = "turn"
  /\ last.branch = "offer"

\* C28: a turn that fails while it is processed (ticket creation raises, or
\* classification or the lookup raises) leaves the session as it was before
\* the turn: the pending flag and the pending info are unchanged (a failed
\* confirmation is still pending with the same info), the user's message is
\* removed from the message history again, and no Conversation row is saved.
C28_FailedTurnChangesNothing ==
  [][\A s \in Sessions :
       /\ (pc[s] = "idle" /\ pc'[s] = "creating") =>
            /\ messages'[s] = Append(messages[s], user_message(frame'[s].prompt))
            /\ pending_ticket_creation'[s] = pending_ticket_creation[s]
            /\ pending_ticket_info'[s] = pending_ticket_info[s]
            /\ conversations' = conversations
       /\ (last'.kind = "turn" /\ last'.error /\ last'.session = s) =>
            /\ pending_ticket_creation'[s] = pending_ticket_creation[s]
            /\ pending_ticket_creation'[s] = last'.began_pending
            /\ pending_ticket_info'[s] = pending_ticket_info[s]
            /\ conversations' = conversations
            /\ last'.response = <<>>
            /\ pc'[s] = "idle"
            /\ IF pc[s] = "creating"
                 THEN /\ messages[s] = Append(messages'[s], user_message(last'.prompt))
                      /\ frame[s].prompt = last'.prompt
                      /\ last'.began_pending
                 ELSE messages'[s] = messages[s]]_vars

\* a confirmation failed: the offer exchange is the whole history, the offer
\* is still pending and only the offer turn was saved
C28_Witness ==
  /\ last.kind = "turn"
  /\ last.error
  /\ last.began_pending
  /\ last.prompt = <<"y","e","s">>
  /\ pending_ticket_creation[User]
  /\ pending_ticket_info[User]["description"] = ReturnPrompt
  /\ Len(messages[User]) = 2
  /\ messages[User][2].role = "assistant"
  /\ Len(conversations) = 1
  /\ tickets = <<>>

\* C29: while a confirmation is pending no message is classified or looked
\* up: a message that contains a valid ticket id is treated as a reply to the
\* offer (confirm, decline or re-prompt) and not as a ticket lookup, no remote
\* call is made, and no new offer overwrites the pending info.
C29_PendingTurnsAreReplies ==
  [][\A s \in Sessions :
       /\ (last'.kind = "turn" /\ last'.session = s /\ last'.began_pending) =>
            /\ pending_ticket_creation[s]
            /\ last'.remote_calls = 0
            /\ last'.query_type = ""
            /\ last'.branch \in {"confirm", "decline", "reprompt", "failed"}
            /\ last'.branch = "confirm" <=> (is_affirmative_of[last'.prompt] /\ ~last'.error)
            /\ last'.branch = "decline" <=>
                 (~is_affirmative_of[last'.prompt] /\ is_negative_of[last'.prompt])
            /\ last'.branch = "reprompt" =>
                 (last'.response = RepromptResponse /\ tickets' = tickets)
       /\ pending_ticket_creation[s] =>
            pending_ticket_info'[s] \in {pending_ticket_info[s], EmptyDict}]_vars

\* the id of a ticket typed while the offer is pending gets the re-prompt
C29_Witness ==
  /\ last.kind = "turn"
  /\ last.began_pending
  /\ last.prompt = <<"t","c","k","t","-","2","0","2","4","0","1","0","1","-","0","0","1">>
  /\ re_search(upper(last.prompt)) # {}
  /\ last.branch = "reprompt"
  /\ last.response = RepromptResponse
  /\ last.remote_calls = 0
  /\ pending_ticket_creation[last.session]

====
